---------------------------- MODULE Spec2Model ----------------------------
(***************************************************************************)
(* A model of the convolution engine of fast-equivariant-deconv:           *)
(*   src/conv_benchmark/utils/graphconv.py  (Chebyshev projection, the     *)
(*       spherical, mixed and spatial convolutions, the isotropic mask)    *)
(*   src/conv_benchmark/utils/sampling.py   (Sampling, _sh_matrix)         *)
(*                                                                         *)
(* Numbers.  Tensor entries are integers.  Weights, Laplacians and inputs  *)
(* are whole numbers; outputs and biases are counted in hundredths, so     *)
(* that the bias fill 0.01 is the integer BiasFill and an output is        *)
(* Hundredths * (sum of products) + bias.                                  *)
(*                                                                         *)
(* Tensors.  A tensor is a record [ok, shape, stride, data]: data lists    *)
(* the entries in the tensor's logical row-major order (1-based), stride   *)
(* is the memory stride of every axis, kept because Tensor.view refuses a  *)
(* tensor whose strides do not fit the requested shape.  A failed torch    *)
(* call (a RuntimeError) is the tensor ErrT, which every later call        *)
(* propagates.                                                             *)
(***************************************************************************)
EXTENDS Integers, Sequences, FiniteSets, TLC

VARIABLES
    cheb,       \* one call of project_cheb_basis / project_cheb_basis_dense
    lapArg,     \* the Laplacian handed to Conv.__init__
    layer,      \* the Conv module: flags, buffers, parameters
    fwdIn,      \* the tensor handed to the last Conv.forward
    fwdOut,     \* what that forward returned
    iso,        \* one call of get_index: the mask being filled
    smp,        \* one construction of Sampling
    shp         \* one forward pass followed by shapes only

vars == <<cheb, lapArg, layer, fwdIn, fwdOut, iso, smp, shp>>

-----------------------------------------------------------------------------
(* Bounds of the model *)

\* largest kernel_sizeSph (number of Chebyshev slices) of project_cheb_basis
MaxK == 4

\* largest spatial kernel size of an isotropic layer
MaxSize == 4
\* largest in_channels / out_channels of an isotropic layer
MaxMaskChannels == 2

\* x = np.arange(size) - (size - 1)/2, doubled so that it stays an integer
TwiceOffset(size, a) == 2 * a - (size - 1)

\* 4 * distance[i, j, k]^2; np.sqrt is increasing, so np.unique orders and
\* separates the distances exactly as it would these integers
Distance4(size, i, j, k) ==
    TwiceOffset(size, k) * TwiceOffset(size, k)
  + TwiceOffset(size, j) * TwiceOffset(size, j)
  + TwiceOffset(size, i) * TwiceOffset(size, i)

\* unique of np.unique(distance, return_inverse=True), as a set
UniqueDistances(size) ==
    {Distance4(size, i, j, k) : i \in 0..(size - 1), j \in 0..(size - 1), k \in 0..(size - 1)}

\* a tensor of at most this many entries has its entries tracked: the size of
\* the largest isotropic mask
EagerLimit ==
    MaxMaskChannels * MaxMaskChannels * MaxSize * MaxSize * MaxSize
        * Cardinality(UniqueDistances(MaxSize))

-----------------------------------------------------------------------------
(* torch tensors *)

RECURSIVE ProdFrom(_, _)
ProdFrom(s, i) == IF i > Len(s) THEN 1 ELSE s[i] * ProdFrom(s, i + 1)

Numel(s) == ProdFrom(s, 1)

ContigStride(s) == [i \in 1..Len(s) |-> ProdFrom(s, i + 1)]

\* the multi-index (0-based entries) of the flat row-major position f (0-based)
Unravel(s, f) == [i \in 1..Len(s) |-> (f \div ProdFrom(s, i + 1)) % s[i]] \o <<>>

RECURSIVE RavelFrom(_, _, _)
RavelFrom(s, idx, i) ==
    IF i > Len(s) THEN 0 ELSE idx[i] * ProdFrom(s, i + 1) + RavelFrom(s, idx, i + 1)

Ravel(s, idx) == RavelFrom(s, idx, 1)

RECURSIVE SumFn(_, _, _)
SumFn(f, lo, hi) ==
    IF lo > hi THEN 0
    ELSE IF lo = hi THEN f[lo]
    ELSE LET mid == (lo + hi) \div 2
         IN  SumFn(f, lo, mid) + SumFn(f, mid + 1, hi)

ErrT == [ok |-> FALSE, shape |-> <<>>, stride |-> <<>>, data |-> <<>>]

\* the entries of a tensor: the same function either way, written out as a
\* sequence (so that every entry is computed once) when the tensor is small
\* The entries of a tensor of at most EagerLimit entries are tracked; a larger
\* tensor keeps its shape and strides only (as a tensor on torch's meta device
\* does), and so does every tensor computed from an untracked one.
Entries(shape, data) == IF Numel(shape) <= EagerLimit THEN data \o <<>> ELSE <<>>

Untracked(t) == t.ok /\ Len(t.data) # Numel(t.shape)

EntriesFrom(srcs, shape, data) ==
    IF \E i \in 1..Len(srcs) : Untracked(srcs[i]) THEN <<>> ELSE Entries(shape, data)

Tensor(shape, data) ==
    [ok |-> TRUE, shape |-> shape, stride |-> ContigStride(shape),
     data |-> Entries(shape, data)]

\* the contiguous result of an operation on the tensors srcs
TensorFrom(srcs, shape, data) ==
    [ok |-> TRUE, shape |-> shape, stride |-> ContigStride(shape),
     data |-> EntriesFrom(srcs, shape, data)]

At(t, idx) == t.data[Ravel(t.shape, idx) + 1]

Full(shape, v) == Tensor(shape, [f \in 1..Numel(shape) |-> v])

\* the tensor with entry 1 at flat position p (1-based) and 0 elsewhere
OneHot(shape, p) == Tensor(shape, [f \in 1..Numel(shape) |-> IF f = p THEN 1 ELSE 0])

\* the tensor whose entries are 1, 2, 3, ... in row-major order
Iota(shape) == Tensor(shape, [f \in 1..Numel(shape) |-> f])

\* Tensor.permute(*dims), dims 0-based as in the source
Permute(t, dims) ==
    IF ~t.ok THEN ErrT
    ELSE LET n   == Len(dims)
             ns  == [i \in 1..n |-> t.shape[dims[i] + 1]]
             pos == [d \in 1..n |-> CHOOSE i \in 1..n : dims[i] = d - 1] \o <<>>
         IN  [ok |-> TRUE, shape |-> ns,
              stride |-> [i \in 1..n |-> t.stride[dims[i] + 1]],
              data |-> EntriesFrom(<<t>>, ns, [f \in 1..Numel(ns) |->
                          LET idx == Unravel(ns, f - 1)
                              old == [j \in 1..n |-> idx[pos[j]]]
                          IN  t.data[Ravel(t.shape, old) + 1]])]

\* Tensor.contiguous()
Contiguous(t) == IF ~t.ok THEN ErrT ELSE [t EXCEPT !.stride = ContigStride(t.shape)]

\* Tensor.reshape(shape): a view when the strides allow it, a copy otherwise;
\* the entries in logical order are the same either way
Reshape(t, ns) ==
    IF ~t.ok \/ Numel(ns) # Numel(t.shape) THEN ErrT
    ELSE [ok |-> TRUE, shape |-> ns, stride |-> ContigStride(ns), data |-> t.data]

\* the while loop of torch's computeStride: view axes are taken from the right
\* until they hold as many entries as the current chunk of tensor axes
RECURSIVE ViewFill(_, _, _, _, _, _)
ViewFill(ns, vd, vn, tn, base, nst) ==
    IF vd >= 1 /\ (vn < tn \/ ns[vd] = 1)
    THEN ViewFill(ns, vd - 1, vn * ns[vd], tn, base, [nst EXCEPT ![vd] = vn * base])
    ELSE [vd |-> vd, vn |-> vn, nst |-> nst]

\* torch's computeStride(oldshape, oldstride, newshape): the new strides, or a
\* failure when an axis of the new shape would span two chunks of memory
RECURSIVE ComputeStrideFrom(_, _, _, _, _, _, _, _, _)
ComputeStrideFrom(os, ost, ns, td, vd, base, tn0, vn, nst) ==
    IF td < 1
    THEN [ok |-> vd = 0, stride |-> nst]
    ELSE LET tn == tn0 * os[td] IN
         IF td = 1 \/ (os[td - 1] # 1 /\ ost[td - 1] # tn * base)
         THEN LET w == ViewFill(ns, vd, vn, tn, base, nst) IN
              IF w.vn # tn THEN [ok |-> FALSE, stride |-> nst]
              ELSE IF td > 1
                   THEN ComputeStrideFrom(os, ost, ns, td - 1, w.vd, ost[td - 1], 1, 1, w.nst)
                   ELSE ComputeStrideFrom(os, ost, ns, 0, w.vd, base, tn, w.vn, w.nst)
         ELSE ComputeStrideFrom(os, ost, ns, td - 1, vd, base, tn, vn, nst)

ComputeStride(os, ost, ns) ==
    ComputeStrideFrom(os, ost, ns, Len(os), Len(ns), ost[Len(ost)], 1, 1,
                      [i \in 1..Len(ns) |-> 1])

\* Tensor.view(shape): never copies, so it raises when the strides do not fit
View(t, ns) ==
    IF ~t.ok \/ Numel(ns) # Numel(t.shape) THEN ErrT
    ELSE LET cs == ComputeStride(t.shape, t.stride, ns) IN
         IF ~cs.ok THEN ErrT
         ELSE [ok |-> TRUE, shape |-> ns, stride |-> cs.stride, data |-> t.data]

\* torch.mm / torch.sparse.mm of a [n, m] and a [m, p] matrix
Mm(a, b) ==
    IF ~a.ok \/ ~b.ok THEN ErrT
    ELSE IF Len(a.shape) # 2 \/ Len(b.shape) # 2 THEN ErrT
    ELSE IF a.shape[2] # b.shape[1] THEN ErrT
    ELSE LET n == a.shape[1]
             m == a.shape[2]
             p == b.shape[2]
         IN  TensorFrom(<<a, b>>, <<n, p>>,
                    [f \in 1..(n * p) |->
                       LET i == (f - 1) \div p
                           l == (f - 1) % p
                       IN  SumFn([j \in 0..(m - 1) |->
                                    a.data[i * m + j + 1] * b.data[j * p + l + 1]],
                                 0, m - 1)])

\* 2 * a - b, entry by entry
TwiceMinus(a, b) ==
    IF ~a.ok \/ ~b.ok THEN ErrT
    ELSE IF a.shape # b.shape THEN ErrT
    ELSE TensorFrom(<<a, b>>, a.shape, [f \in 1..Numel(a.shape) |-> 2 * a.data[f] - b.data[f]])

\* Tensor.unsqueeze(0)
Unsqueeze0(t) == IF ~t.ok THEN ErrT ELSE Tensor(<<1>> \o t.shape, t.data)

\* torch.cat((a, b), 0)
Cat0(a, b) ==
    IF ~a.ok \/ ~b.ok THEN ErrT
    ELSE IF Tail(a.shape) # Tail(b.shape) THEN ErrT
    ELSE LET ns == <<a.shape[1] + b.shape[1]>> \o Tail(a.shape)
             na == Numel(a.shape)
         IN  TensorFrom(<<a, b>>, ns, [f \in 1..Numel(ns) |->
                           IF f <= na THEN a.data[f] ELSE b.data[f - na]])

\* t[k] for a tensor whose first axis is k (0-based)
Slice0(t, k) ==
    LET ns == Tail(t.shape)
        n  == Numel(ns)
    IN  TensorFrom(<<t>>, ns, [f \in 1..n |-> t.data[k * n + f]])

-----------------------------------------------------------------------------
(* Chebyshev basis projection *)

\* the loop "for _ in range(2, K)": i is the loop variable, x0 and x1 the two
\* previous iterates, acc the slices gathered so far
RECURSIVE ChebLoop(_, _, _, _, _, _)
ChebLoop(laplacian, acc, x0, x1, i, K) ==
    IF i >= K THEN acc
    ELSE LET x2 == TwiceMinus(Mm(laplacian, x1), x0)
         IN  ChebLoop(laplacian, Cat0(acc, Unsqueeze0(x2)), x1, x2, i + 1, K)

\* a slip: the two previous iterates are not advanced after an iteration
RECURSIVE ChebLoopNoShift(_, _, _, _, _, _)
ChebLoopNoShift(laplacian, acc, x0, x1, i, K) ==
    IF i >= K THEN acc
    ELSE LET x2 == TwiceMinus(Mm(laplacian, x1), x0)
         IN  ChebLoopNoShift(laplacian, Cat0(acc, Unsqueeze0(x2)), x0, x1, i + 1, K)

project_cheb_basis_noshift(laplacian, x0, K) ==
    IF K > 1
    THEN LET x1 == Mm(laplacian, x0)
         IN  ChebLoopNoShift(laplacian, Cat0(Unsqueeze0(x0), Unsqueeze0(x1)), x0, x1, 2, K)
    ELSE Unsqueeze0(x0)

project_cheb_basis(laplacian, x0, K) ==
    IF K > 1
    THEN LET x1 == Mm(laplacian, x0)
         IN  ChebLoop(laplacian, Cat0(Unsqueeze0(x0), Unsqueeze0(x1)), x0, x1, 2, K)
    ELSE Unsqueeze0(x0)

project_cheb_basis_dense(laplacian, x0, K) ==
    IF K > 1
    THEN LET x1 == Mm(laplacian, x0)
         IN  ChebLoop(laplacian, Cat0(Unsqueeze0(x0), Unsqueeze0(x1)), x0, x1, 2, K)
    ELSE Unsqueeze0(x0)


-----------------------------------------------------------------------------
(* More torch calls, used by the convolutions *)

\* Tensor.unsqueeze(d), d 0-based
Unsqueeze(t, d) ==
    IF ~t.ok THEN ErrT
    ELSE Tensor(SubSeq(t.shape, 1, d) \o <<1>> \o SubSeq(t.shape, d + 1, Len(t.shape)),
                t.data)

\* Tensor.expand(shape) with the shape written out: axes of length 1 are repeated
Expand(t, ns) ==
    IF ~t.ok THEN ErrT
    ELSE IF Len(ns) # Len(t.shape) THEN ErrT
    ELSE IF \E i \in 1..Len(ns) : t.shape[i] # ns[i] /\ t.shape[i] # 1 THEN ErrT
    ELSE [ok |-> TRUE, shape |-> ns,
          stride |-> [i \in 1..Len(ns) |->
                        IF t.shape[i] = ns[i] THEN t.stride[i] ELSE 0],
          data |-> EntriesFrom(<<t>>, ns, [f \in 1..Numel(ns) |->
                      LET idx == Unravel(ns, f - 1)
                          old == [i \in 1..Len(ns) |->
                                    IF t.shape[i] = 1 THEN 0 ELSE idx[i]]
                      IN  t.data[Ravel(t.shape, old) + 1]])]

\* Tensor.flatten(d, d + 1), d 0-based
Flatten2(t, d) ==
    IF ~t.ok THEN ErrT
    ELSE Reshape(t, SubSeq(t.shape, 1, d) \o <<t.shape[d + 1] * t.shape[d + 2]>>
                    \o SubSeq(t.shape, d + 3, Len(t.shape)))

\* a slip: Tensor.repeat along axis d, the whole axis K times over
RepeatInterleaveTiled(t, K, d) ==
    IF ~t.ok THEN ErrT
    ELSE LET ns == [t.shape EXCEPT ![d + 1] = @ * K]
         IN  TensorFrom(<<t>>, ns, [f \in 1..Numel(ns) |->
                           LET idx == Unravel(ns, f - 1)
                               old == [idx EXCEPT ![d + 1] = @ % t.shape[d + 1]]
                           IN  t.data[Ravel(t.shape, old) + 1]])

\* Tensor.repeat_interleave(K, dim=d), d 0-based: every index of axis d is
\* repeated K times in a row
RepeatInterleave(t, K, d) ==
    IF ~t.ok THEN ErrT
    ELSE LET ns == [t.shape EXCEPT ![d + 1] = @ * K]
         IN  TensorFrom(<<t>>, ns, [f \in 1..Numel(ns) |->
                           LET idx == Unravel(ns, f - 1)
                               old == [idx EXCEPT ![d + 1] = @ \div K]
                           IN  t.data[Ravel(t.shape, old) + 1]])

\* a * b with broadcasting of the axes of length 1 (same number of axes)
Mul(a, b) ==
    IF ~a.ok \/ ~b.ok THEN ErrT
    ELSE IF Len(a.shape) # Len(b.shape) THEN ErrT
    ELSE IF \E i \in 1..Len(a.shape) :
               a.shape[i] # b.shape[i] /\ a.shape[i] # 1 /\ b.shape[i] # 1 THEN ErrT
    ELSE LET n  == Len(a.shape)
             ns == [i \in 1..n |-> IF a.shape[i] = 1 THEN b.shape[i] ELSE a.shape[i]]
         IN  TensorFrom(<<a, b>>, ns, [f \in 1..Numel(ns) |->
                           LET idx == Unravel(ns, f - 1)
                               ia  == [i \in 1..n |-> IF a.shape[i] = 1 THEN 0 ELSE idx[i]]
                               ib  == [i \in 1..n |-> IF b.shape[i] = 1 THEN 0 ELSE idx[i]]
                           IN  a.data[Ravel(a.shape, ia) + 1] * b.data[Ravel(b.shape, ib) + 1]])

\* torch.sum(t, -1)
SumLast(t) ==
    IF ~t.ok THEN ErrT
    ELSE LET n  == Len(t.shape)
             r  == t.shape[n]
             ns == SubSeq(t.shape, 1, n - 1)
         IN  TensorFrom(<<t>>, ns, [f \in 1..Numel(ns) |->
                           SumFn([j \in 0..(r - 1) |-> t.data[(f - 1) * r + j + 1]],
                                 0, r - 1)])

\* torch.einsum('bfvxyz,kvw->bfkwxyz', inputs, laplacian)
EinsumProject(inputs, laplacian) ==
    IF ~inputs.ok \/ ~laplacian.ok THEN ErrT
    ELSE IF Len(inputs.shape) # 6 \/ Len(laplacian.shape) # 3 THEN ErrT
    ELSE IF inputs.shape[3] # laplacian.shape[2] THEN ErrT
    ELSE LET V  == inputs.shape[3]
             ns == <<inputs.shape[1], inputs.shape[2], laplacian.shape[1],
                     laplacian.shape[3], inputs.shape[4], inputs.shape[5],
                     inputs.shape[6]>>
         IN  TensorFrom(<<inputs, laplacian>>, ns, [g \in 1..Numel(ns) |->
                LET i == Unravel(ns, g - 1)
                IN  SumFn([v \in 0..(V - 1) |->
                             At(inputs, <<i[1], i[2], v, i[5], i[6], i[7]>>)
                           * At(laplacian, <<i[3], v, i[4]>>)],
                          0, V - 1)])

\* torch.einsum('bfvxyz,fg->bgvxyz', inputs, weight)
EinsumCombine(inputs, weight) ==
    IF ~inputs.ok \/ ~weight.ok THEN ErrT
    ELSE IF Len(inputs.shape) # 6 \/ Len(weight.shape) # 2 THEN ErrT
    ELSE IF inputs.shape[2] # weight.shape[1] THEN ErrT
    ELSE LET F  == inputs.shape[2]
             ns == [inputs.shape EXCEPT ![2] = weight.shape[2]]
         IN  TensorFrom(<<inputs, weight>>, ns, [g \in 1..Numel(ns) |->
                LET i == Unravel(ns, g - 1)
                IN  SumFn([c \in 0..(F - 1) |->
                             At(inputs, [i EXCEPT ![2] = c]) * At(weight, <<c, i[2]>>)],
                          0, F - 1)])

\* the entry of a 5-axis tensor, 0 outside it (the zero padding of conv3d)
AtPadded(t, idx) ==
    IF \A i \in 1..5 : idx[i] >= 0 /\ idx[i] < t.shape[i] THEN At(t, idx) ELSE 0

\* a slip: no padding (padding='valid'), every axis shrinks by kernel - 1
Conv3dValid(inputs, weight) ==
    IF ~inputs.ok \/ ~weight.ok THEN ErrT
    ELSE IF Len(inputs.shape) # 5 \/ Len(weight.shape) # 5 THEN ErrT
    ELSE IF inputs.shape[2] # weight.shape[2] THEN ErrT
    ELSE IF \E a \in 3..5 : inputs.shape[a] < weight.shape[a] THEN ErrT
    ELSE LET ks == <<weight.shape[2], weight.shape[3], weight.shape[4], weight.shape[5]>>
             ns == <<inputs.shape[1], weight.shape[1],
                     inputs.shape[3] - weight.shape[3] + 1,
                     inputs.shape[4] - weight.shape[4] + 1,
                     inputs.shape[5] - weight.shape[5] + 1>>
         IN  TensorFrom(<<inputs, weight>>, ns, [g \in 1..Numel(ns) |->
                LET o == Unravel(ns, g - 1)
                IN  SumFn([m \in 0..(Numel(ks) - 1) |->
                             LET k == Unravel(ks, m)
                             IN  AtPadded(inputs, <<o[1], k[1], o[3] + k[2],
                                                    o[4] + k[3], o[5] + k[4]>>)
                               * At(weight, <<o[2], k[1], k[2], k[3], k[4]>>)],
                          0, Numel(ks) - 1)])

\* torch.nn.functional.conv3d(inputs, weight, padding='same'): stride 1, one
\* group, zero padding of kernel - 1 per axis, (kernel - 1) // 2 of it in front
Conv3dSame(inputs, weight) ==
    IF ~inputs.ok \/ ~weight.ok THEN ErrT
    ELSE IF Len(inputs.shape) # 5 \/ Len(weight.shape) # 5 THEN ErrT
    ELSE IF inputs.shape[2] # weight.shape[2] THEN ErrT
    ELSE LET ks == <<weight.shape[2], weight.shape[3], weight.shape[4], weight.shape[5]>>
             pX == (weight.shape[3] - 1) \div 2
             pY == (weight.shape[4] - 1) \div 2
             pZ == (weight.shape[5] - 1) \div 2
             ns == <<inputs.shape[1], weight.shape[1],
                     inputs.shape[3], inputs.shape[4], inputs.shape[5]>>
         IN  TensorFrom(<<inputs, weight>>, ns, [g \in 1..Numel(ns) |->
                LET o == Unravel(ns, g - 1)
                IN  SumFn([m \in 0..(Numel(ks) - 1) |->
                             LET k == Unravel(ks, m)
                             IN  AtPadded(inputs, <<o[1], k[1], o[3] + k[2] - pX,
                                                    o[4] + k[3] - pY, o[5] + k[4] - pZ>>)
                               * At(weight, <<o[2], k[1], k[2], k[3], k[4]>>)],
                          0, Numel(ks) - 1)])

\* program constants: the bias fill 0.01, counted in hundredths
BiasFill == 1
Hundredths == 100

\* a slip: the bias of channel 0 is added to every channel
AddBiasOfFirst(t, bias) ==
    IF ~t.ok THEN ErrT
    ELSE IF bias.ok /\ bias.shape # <<t.shape[2]>> /\ bias.shape # <<1>> THEN ErrT
    ELSE TensorFrom(<<t>>, t.shape, [f \in 1..Numel(t.shape) |->
                   Hundredths * t.data[f] + (IF bias.ok THEN bias.data[1] ELSE 0)])

\* "outputs += self.bias[None, :, None, ...]": the bias of the channel axis
\* (axis 1) is added to every entry; outputs are counted in hundredths
AddBias(t, bias) ==
    IF ~t.ok THEN ErrT
    ELSE IF bias.ok /\ bias.shape # <<t.shape[2]>> /\ bias.shape # <<1>> THEN ErrT
    ELSE TensorFrom(<<t>>, t.shape, [f \in 1..Numel(t.shape) |->
                   Hundredths * t.data[f]
                 + (IF bias.ok
                    THEN bias.data[(IF bias.shape = <<1>> THEN 0
                                    ELSE Unravel(t.shape, f - 1)[2]) + 1]
                    ELSE 0)])

-----------------------------------------------------------------------------
(* graphconv.py: the precomputed projector and the convolution functions *)

\* torch.eye(V)
Eye(V) == Tensor(<<V, V>>, [f \in 1..(V * V) |->
                              IF (f - 1) \div V = (f - 1) % V THEN 1 ELSE 0])

\* the K x V x V projector: slice 0 the identity, slice 1 the Laplacian,
\* slice i = 2 * lap * slice[i-1] - slice[i-2]
precompute_projection(lap, K) ==
    IF ~lap.ok THEN ErrT
    ELSE LET V == lap.shape[1]
             projector[i \in 0..(K - 1)] ==
                 IF i = 0 THEN Eye(V)
                 ELSE IF i = 1 THEN (IF lap.shape = <<V, V>> THEN lap ELSE ErrT)
                 ELSE TwiceMinus(Mm(lap, projector[i - 1]), projector[i - 2])
             slices == [k \in 1..K |-> projector[k - 1]] \o <<>>
         IN  IF \E k \in 1..K : ~slices[k].ok THEN ErrT
             ELSE TensorFrom(<<lap>>, <<K, V, V>>,
                         [f \in 1..(K * V * V) |->
                            slices[((f - 1) \div (V * V)) + 1].data[((f - 1) % (V * V)) + 1]])

\* cheb_conv: "B, Fin, V, X, Y, Z = inputs.shape; K, Fin, Fout = weight.shape"
\* (Fin is the weight's), the projection, then the combination with the weight
cheb_conv(laplacian, inputs, weight, precompute, einsum) ==
    IF ~inputs.ok \/ ~weight.ok \/ ~laplacian.ok THEN ErrT
    ELSE IF Len(inputs.shape) # 6 \/ Len(weight.shape) # 3 THEN ErrT
    ELSE
    LET B == inputs.shape[1]
        V == inputs.shape[3]
        X == inputs.shape[4]
        Y == inputs.shape[5]
        Z == inputs.shape[6]
        K == weight.shape[1]
        Fin == weight.shape[2]
        Fout == weight.shape[3]
        projected ==
            IF precompute
            THEN IF einsum
                 THEN EinsumProject(inputs, laplacian)
                 ELSE LET x0 == Reshape(Permute(inputs, <<2, 1, 0, 3, 4, 5>>),
                                        <<V, Fin * B * X * Y * Z>>)
                      IN  Permute(Reshape(Mm(laplacian, x0), <<K, V, Fin, B, X, Y, Z>>),
                                  <<3, 1, 4, 5, 6, 0, 2>>)
            ELSE LET x0 == View(Contiguous(Permute(inputs, <<2, 1, 0, 3, 4, 5>>)),
                                <<V, Fin * B * X * Y * Z>>)
                     basis == View(project_cheb_basis(laplacian, x0, K),
                                   <<K, V, Fin, B, X, Y, Z>>)
                 IN  Contiguous(Permute(basis, <<3, 1, 4, 5, 6, 0, 2>>))
    IN  IF einsum
        THEN LET w == View(Contiguous(Permute(weight, <<1, 0, 2>>)), <<K * Fin, Fout>>)
             IN  EinsumCombine(Reshape(projected, <<B, Fin * K, V, X, Y, Z>>), w)
        ELSE LET flat == View(projected, <<B * V * X * Y * Z, K * Fin>>)
                 w == View(weight, <<K * Fin, Fout>>)
             IN  Permute(Reshape(Mm(flat, w), <<B, V, X, Y, Z, Fout>>),
                         <<0, 5, 1, 2, 3, 4>>)

\* cheb_conv_dense: the same with project_cheb_basis_dense, and with reshape
\* in place of view before the multiplication by the weight
cheb_conv_dense(laplacian, inputs, weight, precompute, einsum) ==
    IF ~inputs.ok \/ ~weight.ok \/ ~laplacian.ok THEN ErrT
    ELSE IF Len(inputs.shape) # 6 \/ Len(weight.shape) # 3 THEN ErrT
    ELSE
    LET B == inputs.shape[1]
        V == inputs.shape[3]
        X == inputs.shape[4]
        Y == inputs.shape[5]
        Z == inputs.shape[6]
        K == weight.shape[1]
        Fin == weight.shape[2]
        Fout == weight.shape[3]
        projected ==
            IF precompute
            THEN IF einsum
                 THEN EinsumProject(inputs, laplacian)
                 ELSE LET x0 == Reshape(Permute(inputs, <<2, 1, 0, 3, 4, 5>>),
                                        <<V, Fin * B * X * Y * Z>>)
                      IN  Permute(Reshape(Mm(laplacian, x0), <<K, V, Fin, B, X, Y, Z>>),
                                  <<3, 1, 4, 5, 6, 0, 2>>)
            ELSE LET x0 == View(Contiguous(Permute(inputs, <<2, 1, 0, 3, 4, 5>>)),
                                <<V, Fin * B * X * Y * Z>>)
                     basis == View(project_cheb_basis_dense(laplacian, x0, K),
                                   <<K, V, Fin, B, X, Y, Z>>)
                 IN  Contiguous(Permute(basis, <<3, 1, 4, 5, 6, 0, 2>>))
    IN  IF einsum
        THEN LET w == View(Contiguous(Permute(weight, <<1, 0, 2>>)), <<K * Fin, Fout>>)
             IN  EinsumCombine(Reshape(projected, <<B, Fin * K, V, X, Y, Z>>), w)
        ELSE LET flat == Reshape(projected, <<B * V * X * Y * Z, K * Fin>>)
                 w == View(weight, <<K * Fin, Fout>>)
             IN  Permute(Reshape(Mm(flat, w), <<B, V, X, Y, Z, Fout>>),
                         <<0, 5, 1, 2, 3, 4>>)

\* "Expand spherical and Spatial filters": the fused kernel Fout x Fin*K x kX x kY x kZ
FusedKernel(weightSph, weightSpa, repeat_interleave) ==
    IF ~weightSph.ok \/ ~weightSpa.ok THEN ErrT
    ELSE IF Len(weightSph.shape) # 3 \/ Len(weightSpa.shape) # 5 THEN ErrT
    ELSE
    LET Fout == weightSph.shape[1]
        Fin == weightSph.shape[2]
        K == weightSph.shape[3]
        kX == weightSpa.shape[3]
        kY == weightSpa.shape[4]
        kZ == weightSpa.shape[5]
        wSph == Expand(View(weightSph, <<Fout, Fin * K, 1, 1, 1>>),
                       <<Fout, Fin * K, kX, kY, kZ>>)
        wSpa == IF repeat_interleave
                THEN RepeatInterleave(weightSpa, K, 1)
                ELSE Flatten2(Expand(Unsqueeze(weightSpa, 2),
                                     <<weightSpa.shape[1], weightSpa.shape[2], K, kX, kY, kZ>>),
                              1)
    IN  IF wSph.ok /\ wSpa.ok /\ wSph.shape # wSpa.shape THEN ErrT ELSE Mul(wSph, wSpa)

\* se3so3_conv: the projection laid out as B*V x Fin*K x X x Y x Z, then one
\* conv3d with the fused kernel
se3so3_conv(laplacian, inputs, weightSph, weightSpa, precompute, einsum, repeat_interleave) ==
    IF ~inputs.ok \/ ~weightSph.ok \/ ~weightSpa.ok \/ ~laplacian.ok THEN ErrT
    ELSE IF Len(inputs.shape) # 6 \/ Len(weightSph.shape) # 3 \/ Len(weightSpa.shape) # 5
    THEN ErrT
    ELSE
    LET B == inputs.shape[1]
        V == inputs.shape[3]
        X == inputs.shape[4]
        Y == inputs.shape[5]
        Z == inputs.shape[6]
        K == weightSph.shape[3]
        Fout == weightSpa.shape[1]
        Fin == weightSpa.shape[2]
        projected ==
            IF precompute
            THEN IF einsum
                 THEN Reshape(Permute(EinsumProject(inputs, laplacian),
                                      <<0, 3, 1, 2, 4, 5, 6>>),
                              <<B * V, Fin * K, X, Y, Z>>)
                 ELSE LET x0 == View(Contiguous(Permute(inputs, <<2, 1, 0, 3, 4, 5>>)),
                                     <<V, Fin * B * X * Y * Z>>)
                          basis == View(Mm(laplacian, x0), <<K, V, Fin, B, X, Y, Z>>)
                      IN  View(Contiguous(Permute(basis, <<3, 1, 2, 0, 4, 5, 6>>)),
                               <<B * V, Fin * K, X, Y, Z>>)
            ELSE LET x0 == View(Contiguous(Permute(inputs, <<2, 1, 0, 3, 4, 5>>)),
                                <<V, Fin * B * X * Y * Z>>)
                     basis == View(project_cheb_basis(laplacian, x0, K),
                                   <<K, V, Fin, B, X, Y, Z>>)
                 IN  View(Contiguous(Permute(basis, <<3, 1, 2, 0, 4, 5, 6>>)),
                          <<B * V, Fin * K, X, Y, Z>>)
        weight == FusedKernel(weightSph, weightSpa, repeat_interleave)
        conv == Conv3dSame(projected, weight)
    IN  Contiguous(Permute(View(conv, <<B, V, Fout, X, Y, Z>>), <<0, 2, 1, 3, 4, 5>>))

\* se3so3_conv_dense: the same with project_cheb_basis_dense
se3so3_conv_dense(laplacian, inputs, weightSph, weightSpa, precompute, einsum, repeat_interleave) ==
    IF ~inputs.ok \/ ~weightSph.ok \/ ~weightSpa.ok \/ ~laplacian.ok THEN ErrT
    ELSE IF Len(inputs.shape) # 6 \/ Len(weightSph.shape) # 3 \/ Len(weightSpa.shape) # 5
    THEN ErrT
    ELSE
    LET B == inputs.shape[1]
        V == inputs.shape[3]
        X == inputs.shape[4]
        Y == inputs.shape[5]
        Z == inputs.shape[6]
        K == weightSph.shape[3]
        Fout == weightSpa.shape[1]
        Fin == weightSpa.shape[2]
        projected ==
            IF precompute
            THEN IF einsum
                 THEN Reshape(Permute(EinsumProject(inputs, laplacian),
                                      <<0, 3, 1, 2, 4, 5, 6>>),
                              <<B * V, Fin * K, X, Y, Z>>)
                 ELSE LET x0 == View(Contiguous(Permute(inputs, <<2, 1, 0, 3, 4, 5>>)),
                                     <<V, Fin * B * X * Y * Z>>)
                          basis == View(Mm(laplacian, x0), <<K, V, Fin, B, X, Y, Z>>)
                      IN  View(Contiguous(Permute(basis, <<3, 1, 2, 0, 4, 5, 6>>)),
                               <<B * V, Fin * K, X, Y, Z>>)
            ELSE LET x0 == View(Contiguous(Permute(inputs, <<2, 1, 0, 3, 4, 5>>)),
                                <<V, Fin * B * X * Y * Z>>)
                     basis == View(project_cheb_basis_dense(laplacian, x0, K),
                                   <<K, V, Fin, B, X, Y, Z>>)
                 IN  View(Contiguous(Permute(basis, <<3, 1, 2, 0, 4, 5, 6>>)),
                          <<B * V, Fin * K, X, Y, Z>>)
        weight == FusedKernel(weightSph, weightSpa, repeat_interleave)
        conv == Conv3dSame(projected, weight)
    IN  Contiguous(Permute(View(conv, <<B, V, Fout, X, Y, Z>>), <<0, 2, 1, 3, 4, 5>>))

-----------------------------------------------------------------------------
(* graphconv.py: the isotropic mask *)

\* ind.reshape((size, size, size))[i, j, k]: the rank of the distance in unique
Ind(size, i, j, k) ==
    Cardinality({u \in UniqueDistances(size) : u < Distance4(size, i, j, k)})

\* one iteration of the loop of get_index:
\* weight_tmp[:, :, :, :, :, i][:, :, ind == i] = 1
MaskAssign(weight_tmp, size, i) ==
    TensorFrom(<<weight_tmp>>, weight_tmp.shape,
           [f \in 1..Numel(weight_tmp.shape) |->
              LET idx == Unravel(weight_tmp.shape, f - 1)
              IN  IF idx[6] = i /\ Ind(size, idx[3], idx[4], idx[5]) = i
                  THEN 1 ELSE weight_tmp.data[f]])

\* a slip: the loop starts at bucket 1, "for i in range(1, len(unique))"
RECURSIVE MaskLoopFromOne(_, _, _, _)
MaskLoopFromOne(weight_tmp, size, i, n) ==
    IF i >= n THEN weight_tmp
    ELSE IF i = 0 THEN MaskLoopFromOne(weight_tmp, size, i + 1, n)
    ELSE MaskLoopFromOne(MaskAssign(weight_tmp, size, i), size, i + 1, n)

\* "for i in range(len(unique))"
RECURSIVE MaskLoop(_, _, _, _)
MaskLoop(weight_tmp, size, i, n) ==
    IF i >= n THEN weight_tmp
    ELSE MaskLoop(MaskAssign(weight_tmp, size, i), size, i + 1, n)

\* SO3SE3Conv.get_index and SpatialConv.get_index (the same text): the mask
\* weight_tmp of shape [out_channels, in_channels, size, size, size, len(unique)]
get_index(out_channels, in_channels, size) ==
    LET n == Cardinality(UniqueDistances(size))
        shape == <<out_channels, in_channels, size, size, size, n>>
    IN  Contiguous(MaskLoop(Full(shape, 0), size, 0, n))

-----------------------------------------------------------------------------
(* graphconv.py: the layer classes.  A module is a record of its attributes; *)
(* an attribute that is None (no bias, no mask) holds ErrT.                  *)

\* torch.sum((self.weight_tmp * self.weightSpa), -1): the full spatial kernel
\* of an isotropic layer
IsoKernelUnmasked(weight_tmp, weightSpa) == SumLast(Mul(Full(weight_tmp.shape, 1), weightSpa))
IsoKernel(weight_tmp, weightSpa) == SumLast(Mul(weight_tmp, weightSpa))

\* the values a parameter tensor takes: normal_ at construction and the
\* optimizer afterwards write arbitrary numbers; the model draws from patterns
Fill(shape, pattern) ==
    CASE pattern = "zero" -> Full(shape, 0)
      [] pattern = "iota" -> Iota(shape)
      [] pattern = "last" -> OneHot(shape, Numel(shape))
      [] pattern = "fill" -> Full(shape, BiasFill)

\* ChebConv.__init__ with kaiming_initialization
ChebConv_init(in_channels, out_channels, kernel_size, bias, dense, draw) ==
    [cls |-> "ChebConv", in_channels |-> in_channels, out_channels |-> out_channels,
     kernel_sizeSph |-> kernel_size, kernel_sizeSpa |-> 0, isoSpa |-> FALSE,
     dense |-> dense, repeat_interleave |-> FALSE,
     weight |-> Fill(<<kernel_size, in_channels, out_channels>>, draw),
     weightSph |-> ErrT, weightSpa |-> ErrT, weight_tmp |-> ErrT,
     bias |-> IF bias THEN Fill(<<out_channels>>, "fill") ELSE ErrT]

\* SO3SE3Conv.__init__ with kaiming_initialization
SO3SE3Conv_init(in_channels, out_channels, kernel_sizeSph, kernel_sizeSpa, bias, isoSpa, dense, repeat_interleave, draw) ==
    LET weight_tmp == IF isoSpa
                      THEN get_index(out_channels, in_channels, kernel_sizeSpa)
                      ELSE ErrT
        shape == IF isoSpa
                 THEN <<out_channels, in_channels, 1, 1, 1, weight_tmp.shape[6]>>
                 ELSE <<out_channels, in_channels,
                        kernel_sizeSpa, kernel_sizeSpa, kernel_sizeSpa>>
    IN  [cls |-> "SO3SE3Conv", in_channels |-> in_channels, out_channels |-> out_channels,
         kernel_sizeSph |-> kernel_sizeSph, kernel_sizeSpa |-> kernel_sizeSpa,
         isoSpa |-> isoSpa, dense |-> dense, repeat_interleave |-> repeat_interleave,
         weight |-> ErrT,
         weightSph |-> Fill(<<out_channels, in_channels, kernel_sizeSph>>, draw),
         weightSpa |-> Fill(shape, draw), weight_tmp |-> weight_tmp,
         bias |-> IF bias THEN Fill(<<out_channels>>, "fill") ELSE ErrT]

\* SpatialConv.__init__ with kaiming_initialization
SpatialConv_init(in_channels, out_channels, kernel_sizeSpa, bias, isoSpa, draw) ==
    LET weight_tmp == IF isoSpa
                      THEN get_index(out_channels, in_channels, kernel_sizeSpa)
                      ELSE ErrT
        shape == IF isoSpa
                 THEN <<out_channels, in_channels, 1, 1, 1, weight_tmp.shape[6]>>
                 ELSE <<out_channels, in_channels,
                        kernel_sizeSpa, kernel_sizeSpa, kernel_sizeSpa>>
    IN  [cls |-> "SpatialConv", in_channels |-> in_channels, out_channels |-> out_channels,
         kernel_sizeSph |-> 0, kernel_sizeSpa |-> kernel_sizeSpa,
         isoSpa |-> isoSpa, dense |-> FALSE, repeat_interleave |-> FALSE,
         weight |-> ErrT, weightSph |-> ErrT,
         weightSpa |-> Fill(shape, draw), weight_tmp |-> weight_tmp,
         bias |-> IF bias THEN Fill(<<out_channels>>, "fill") ELSE ErrT]

\* ChebConv.forward
ChebConv_forward(conv, laplacian, inputs, precompute, einsum) ==
    LET outputs == IF conv.dense
                   THEN cheb_conv_dense(laplacian, inputs, conv.weight, precompute, einsum)
                   ELSE cheb_conv(laplacian, inputs, conv.weight, precompute, einsum)
    IN  AddBias(outputs, conv.bias)

\* SO3SE3Conv.forward
SO3SE3Conv_forward(conv, laplacian, inputs, precompute, einsum) ==
    LET weight == IF conv.isoSpa THEN IsoKernel(conv.weight_tmp, conv.weightSpa)
                  ELSE conv.weightSpa
        outputs == IF conv.dense
                   THEN se3so3_conv_dense(laplacian, inputs, conv.weightSph, weight,
                                          precompute, einsum, conv.repeat_interleave)
                   ELSE se3so3_conv(laplacian, inputs, conv.weightSph, weight,
                                    precompute, einsum, conv.repeat_interleave)
    IN  AddBias(outputs, conv.bias)

\* SpatialConv.forward: a 6-axis input has its vertex axis folded into the
\* channel axis before the conv3d and unfolded after it
SpatialConv_forward(conv, laplacian, inputs, precompute, einsum) ==
    IF ~inputs.ok THEN ErrT
    ELSE
    LET redim == Len(inputs.shape) = 6
        B == inputs.shape[1]
        V == inputs.shape[3]
        folded == IF redim
                  THEN Reshape(inputs, <<B, inputs.shape[2] * V, inputs.shape[4],
                                         inputs.shape[5], inputs.shape[6]>>)
                  ELSE inputs
        weight == IF conv.isoSpa THEN IsoKernel(conv.weight_tmp, conv.weightSpa)
                  ELSE conv.weightSpa
        outputs == AddBias(Conv3dSame(folded, weight), conv.bias)
    IN  IF ~outputs.ok \/ ~redim THEN outputs
        ELSE IF Numel(outputs.shape) % (B * V * outputs.shape[3] * outputs.shape[4]
                                          * outputs.shape[5]) # 0 THEN ErrT
        ELSE Reshape(outputs, <<B, outputs.shape[2] \div V, V, outputs.shape[3],
                                outputs.shape[4], outputs.shape[5]>>)

\* the conv_name values of the three branches of Conv.__init__
SpatialNames == {"spatial", "spatial_vec", "spatial_sh"}
\* a slip: a name of the other factory falls through to the last branch
ConvNamesWithBekkers == {"spherical", "mixed", "bekkers"} \cup SpatialNames
ConvNames == {"spherical", "mixed"} \cup SpatialNames

\* Conv.__init__: cfg holds the arguments, draw the values normal_ writes.
\* pc is "failed" when the constructor raised (NotImplementedError, or a torch
\* error while the projector was built)
Conv_init(cfg, lap, draw) ==
    LET projector == precompute_projection(lap, cfg.kernel_sizeSph)
        laplacian ==
            IF cfg.precompute
            THEN IF ~cfg.einsum
                 THEN View(Contiguous(Permute(projector, <<0, 2, 1>>)),
                           <<cfg.kernel_sizeSph * lap.shape[2], lap.shape[1]>>)
                 ELSE projector
            ELSE lap
        conv == IF cfg.conv_name = "spherical"
                THEN ChebConv_init(cfg.in_channels, cfg.out_channels, cfg.kernel_sizeSph,
                                   cfg.bias, cfg.dense, draw)
                ELSE IF cfg.conv_name = "mixed"
                THEN SO3SE3Conv_init(cfg.in_channels, cfg.out_channels, cfg.kernel_sizeSph,
                                     cfg.kernel_sizeSpa, cfg.bias, cfg.isoSpa, cfg.dense,
                                     cfg.repeat_interleave, draw)
                ELSE SpatialConv_init(cfg.in_channels, cfg.out_channels, cfg.kernel_sizeSpa,
                                      cfg.bias, cfg.isoSpa, draw)
    IN  IF ~laplacian.ok
        THEN [pc |-> "failed", error |-> "RuntimeError", cfg |-> cfg]
        ELSE IF cfg.conv_name \notin ConvNames
        THEN [pc |-> "failed", error |-> "NotImplementedError", cfg |-> cfg]
        ELSE [pc |-> "built", error |-> "", cfg |-> cfg, einsum |-> cfg.einsum,
              precompute |-> cfg.precompute, laplacian |-> laplacian, conv |-> conv,
              steps |-> 0]

\* Conv.forward: self.conv(self.laplacian, x, self.precompute, self.einsum)
Conv_forward(self, x) ==
    IF self.conv.cls = "ChebConv"
    THEN ChebConv_forward(self.conv, self.laplacian, x, self.precompute, self.einsum)
    ELSE IF self.conv.cls = "SO3SE3Conv"
    THEN SO3SE3Conv_forward(self.conv, self.laplacian, x, self.precompute, self.einsum)
    ELSE SpatialConv_forward(self.conv, self.laplacian, x, self.precompute, self.einsum)

-----------------------------------------------------------------------------
(* Values the model draws its tensors from *)

\* entries of a Laplacian
LapValues == {-1, 0, 1}

\* entries of a signal
SigValues == {0, 1}

\* all tensors of a shape with entries in a set
TensorsOver(shape, S) == {Tensor(shape, d) : d \in [1..Numel(shape) -> S]}

\* what a variable holds in a specification that does not use it
Idle == [pc |-> "idle"]

-----------------------------------------------------------------------------
(* Specification SpecCheb: calls of the two projection functions *)

\* vertex counts and signal widths (D) of the calls
ChebVertices == {1, 2}
ChebWidths == {1, 2}

ChebCalls ==
    UNION {{[pc |-> "call", laplacian |-> L, x0 |-> x, K |-> k,
             dense |-> FALSE, basis |-> ErrT] :
               L \in TensorsOver(<<V, V>>, LapValues),
               x \in UNION {TensorsOver(<<V, D>>, SigValues) : D \in ChebWidths},
               k \in 1..MaxK} : V \in ChebVertices}

ChebInit ==
    /\ cheb \in ChebCalls
    /\ lapArg = Idle /\ layer = Idle /\ fwdIn = Idle /\ fwdOut = Idle
    /\ iso = Idle /\ smp = Idle /\ shp = Idle

ChebOthersUnchanged == UNCHANGED <<lapArg, layer, fwdIn, fwdOut, iso, smp, shp>>

ProjectChebBasis ==
    /\ cheb.pc = "call"
    /\ cheb' = [cheb EXCEPT !.pc = "done", !.dense = FALSE,
                            !.basis = project_cheb_basis(cheb.laplacian, cheb.x0, cheb.K)]
    /\ ChebOthersUnchanged

ProjectChebBasisDense ==
    /\ cheb.pc = "call"
    /\ cheb' = [cheb EXCEPT !.pc = "done", !.dense = TRUE,
                            !.basis = project_cheb_basis_dense(cheb.laplacian, cheb.x0, cheb.K)]
    /\ ChebOthersUnchanged

ChebNext == ProjectChebBasis \/ ProjectChebBasisDense

SpecCheb == ChebInit /\ [][ChebNext]_vars

\* two tensors hold the same entries in the same shape (or both failed)
SameT(a, b) == a.ok = b.ok /\ (a.ok => (a.shape = b.shape /\ a.data = b.data))

\* C1: project_cheb_basis and project_cheb_basis_dense return exactly K slices,
\* slice 0 is x0, slice 1 is L*x0 (when K > 1) and every slice k in 2..K-1 is
\* 2*L*slice[k-1] - slice[k-2]; for K = 1 the result is the single slice x0.
C1_ChebRecurrence ==
    cheb.pc = "done" =>
        LET b == cheb.basis
            L == cheb.laplacian
        IN  /\ b.ok
            /\ b.shape = <<cheb.K>> \o cheb.x0.shape
            /\ SameT(Slice0(b, 0), cheb.x0)
            /\ cheb.K > 1 => SameT(Slice0(b, 1), Mm(L, cheb.x0))
            /\ \A k \in 2..(cheb.K - 1) :
                  SameT(Slice0(b, k),
                        TwiceMinus(Mm(L, Slice0(b, k - 1)), Slice0(b, k - 2)))

\* a finished call with four slices whose last two slices differ from the
\* first two, for each of the two functions
C1_Witness ==
    /\ cheb.pc = "done"
    /\ cheb.dense
    /\ cheb.K >= 4
    /\ cheb.basis.shape[1] = cheb.K
    /\ Slice0(cheb.basis, 3).data # Slice0(cheb.basis, 1).data
    /\ Slice0(cheb.basis, 2).data # Slice0(cheb.basis, 0).data

-----------------------------------------------------------------------------
(* Specification SpecConv: a Conv layer is built on a Laplacian, its        *)
(* parameters are rewritten by training steps, and it is run on inputs.     *)

\* largest in_channels / out_channels of a layer, and channel count of an input
MaxChannels == 2
\* largest kernel_sizeSph of a layer
MaxKernelSph == 3
\* largest batch size of an input
MaxBatch == 2
\* number of training steps followed
MaxSteps == 1
\* number of forward passes between two training steps
MaxForwards == 1

\* the input and output shapes of the end-to-end example: 12 vertices,
\* Fin = 2, Fout = 4, batch 1, spatial size 1 x 1 x 1
ExampleInput == <<1, 2, 12, 1, 1, 1>>
ExampleOutput == <<1, 4, 12, 1, 1, 1>>

\* the adjacency matrix of a ring of V vertices
Ring(V) == Tensor(<<V, V>>, [f \in 1..(V * V) |->
                               LET d == ((((f - 1) \div V) - ((f - 1) % V)) + V) % V
                               IN  IF d = 1 \/ d = V - 1 THEN 1 ELSE 0])

\* the Laplacians handed to Conv.__init__: a non-symmetric one, a symmetric
\* one, and the 12-vertex one of the example
ConvLaplacians ==
    {Tensor(<<2, 2>>, <<0, 1, 0, 0>>), Tensor(<<2, 2>>, <<1, -1, -1, 1>>),
     Ring(ExampleInput[3])}

\* the spatial kernel sizes of the layers
KernelSizesSpa == {1, 2, 3}

\* <<in_channels, out_channels, kernel_sizeSph>> of the spherical layers
SphericalSizes ==
    {<<1, 1, 1>>, <<MaxChannels, MaxChannels, MaxKernelSph - 1>>,
     <<1, MaxChannels, MaxKernelSph>>}

\* the arguments of Conv.__init__ tried on a Laplacian
ConvConfigs(lap) ==
    IF lap.shape[1] = ExampleInput[3]
    THEN {[conv_name |-> "spherical", in_channels |-> ExampleInput[2],
           out_channels |-> ExampleOutput[2],
           kernel_sizeSph |-> 3, kernel_sizeSpa |-> 3, bias |-> TRUE, isoSpa |-> TRUE,
           dense |-> d, precompute |-> p, einsum |-> e, repeat_interleave |-> FALSE] :
             d \in BOOLEAN, p \in BOOLEAN, e \in BOOLEAN}
    ELSE
      {[conv_name |-> "spherical", in_channels |-> z[1], out_channels |-> z[2],
        kernel_sizeSph |-> z[3], kernel_sizeSpa |-> 3, bias |-> b, isoSpa |-> TRUE,
        dense |-> d, precompute |-> p, einsum |-> e, repeat_interleave |-> FALSE] :
          z \in SphericalSizes, b \in BOOLEAN,
          d \in BOOLEAN, p \in BOOLEAN, e \in BOOLEAN}
      \cup
      {[conv_name |-> "mixed", in_channels |-> MaxChannels, out_channels |-> MaxChannels,
        kernel_sizeSph |-> MaxKernelSph - 1, kernel_sizeSpa |-> IF iso_ THEN 3 ELSE 2,
        bias |-> TRUE, isoSpa |-> iso_,
        dense |-> d, precompute |-> p, einsum |-> e, repeat_interleave |-> r] :
          iso_ \in BOOLEAN, d \in BOOLEAN, p \in BOOLEAN, e \in BOOLEAN, r \in BOOLEAN}
      \cup
      {[conv_name |-> "spatial", in_channels |-> c, out_channels |-> c,
        kernel_sizeSph |-> 3, kernel_sizeSpa |-> s, bias |-> TRUE, isoSpa |-> iso_,
        dense |-> FALSE, precompute |-> p, einsum |-> FALSE,
        repeat_interleave |-> FALSE] :
          c \in 1..MaxChannels, s \in KernelSizesSpa, iso_ \in BOOLEAN, p \in BOOLEAN}
      \cup
      {[conv_name |-> n, in_channels |-> 1, out_channels |-> 1,
        kernel_sizeSph |-> 3, kernel_sizeSpa |-> 3, bias |-> TRUE, isoSpa |-> TRUE,
        dense |-> FALSE, precompute |-> FALSE, einsum |-> FALSE,
        repeat_interleave |-> FALSE] : n \in {"spatial_vec", "spatial_sh", "bekkers"}}

\* the inputs handed to the forward of a layer built on lap: every channel
\* count, whether or not it is the one the layer was built for
ConvInputs(lap) ==
    LET V == lap.shape[1] IN
    IF V = ExampleInput[3]
    THEN {Iota(ExampleInput)}
    ELSE {Iota(<<1, F, V, 1, 1, 1>>) : F \in 1..MaxChannels}
         \cup {Iota(<<MaxBatch, F, V, 2, 1, 1>>) : F \in 1..MaxChannels}

\* the pattern normal_ leaves in the weights, and the <<weights, bias>>
\* patterns a training step leaves
DrawPatterns == {"iota"}
StepPatterns == {<<"zero", "fill">>, <<"zero", "iota">>}

ConvInit ==
    /\ lapArg \in ConvLaplacians
    /\ layer = Idle /\ fwdIn = Idle /\ fwdOut = [pc |-> "none", passes |-> 0]
    /\ cheb = Idle /\ iso = Idle /\ smp = Idle /\ shp = Idle

ConvOthersUnchanged == UNCHANGED <<cheb, iso, smp, shp>>

\* Conv(in_channels, out_channels, lap, ...)
Construct ==
    /\ layer = Idle
    /\ \E cfg \in ConvConfigs(lapArg), draw \in DrawPatterns :
          layer' = Conv_init(cfg, lapArg, draw)
    /\ UNCHANGED <<lapArg, fwdIn, fwdOut>>
    /\ ConvOthersUnchanged

\* the parameters after a rewrite of every weight tensor and of the bias
Rewritten(conv, pattern, biasPattern) ==
    [conv EXCEPT
       !.weight = IF @.ok THEN Fill(@.shape, pattern) ELSE @,
       !.weightSph = IF @.ok THEN Fill(@.shape, pattern) ELSE @,
       !.weightSpa = IF @.ok THEN Fill(@.shape, pattern) ELSE @,
       !.bias = IF @.ok THEN Fill(@.shape, biasPattern) ELSE @]

\* optimizer.step(): every parameter of the layer is rewritten; the tensors of
\* the finished iteration are dropped
Step ==
    /\ layer.pc = "built"
    /\ layer.steps < MaxSteps
    /\ \E w \in StepPatterns :
          layer' = [layer EXCEPT !.conv = Rewritten(@, w[1], w[2]),
                                 !.steps = @ + 1]
    /\ fwdIn' = Idle /\ fwdOut' = [pc |-> "none", passes |-> 0]
    /\ UNCHANGED lapArg
    /\ ConvOthersUnchanged

\* layer(x): fwdOut holds the returned tensor, or pc "raised" when torch raised
Forward ==
    /\ layer.pc = "built"
    /\ fwdOut.passes < MaxForwards
    /\ \E x \in ConvInputs(lapArg) :
          LET out == Conv_forward(layer, x) IN
          /\ fwdIn' = [pc |-> "given", x |-> x]
          /\ fwdOut' = [pc |-> IF out.ok THEN "returned" ELSE "raised", x |-> out,
                        passes |-> fwdOut.passes + 1]
    /\ UNCHANGED <<lapArg, layer>>
    /\ ConvOthersUnchanged

ConvNext == Construct \/ Step \/ Forward

SpecConv == ConvInit /\ [][ConvNext]_vars

\* the layer rebuilt on the same Laplacian with other precompute and einsum
\* flags and the same parameters (load_state_dict of the layer's parameters)
WithFlags(self, precompute, einsum) ==
    LET cfg == [self.cfg EXCEPT !.precompute = precompute, !.einsum = einsum]
        other == Conv_init(cfg, lapArg, "iota")
    IN  [other EXCEPT !.conv = self.conv, !.steps = self.steps]

\* a forward pass has run on the layer as it is now
Ran == layer.pc = "built" /\ fwdIn.pc = "given"

\* C2: for every Laplacian the layer accepts, every input and every K, the
\* layer built with precompute=True gives the same output (or fails alike) as
\* the layer with the same weights built with precompute=False.
C2_PrecomputeParity ==
    Ran => SameT(fwdOut.x,
                 Conv_forward(WithFlags(layer, ~layer.precompute, layer.einsum), fwdIn.x))

\* C3: for every variant and both settings of precompute, the layer run with
\* einsum=True gives the same output (or fails alike) as with einsum=False.
C3_EinsumParity ==
    Ran => SameT(fwdOut.x,
                 Conv_forward(WithFlags(layer, layer.precompute, ~layer.einsum), fwdIn.x))

\* C6: a layer built with in_channels = Fin and out_channels = Fout, run on an
\* input of shape [B, Fin, V, X, Y, Z], returns a tensor of shape
\* [B, Fout, V, X, Y, Z].
C6_OutputShape ==
    (Ran /\ fwdIn.x.shape[2] = layer.cfg.in_channels) =>
        /\ fwdOut.pc = "returned"
        /\ fwdOut.x.shape = [fwdIn.x.shape EXCEPT ![2] = layer.cfg.out_channels]

\* every weight tensor of the layer is zero
ZeroWeights(conv) ==
    \A w \in {conv.weight, conv.weightSph, conv.weightSpa} :
        w.ok => \A f \in 1..Numel(w.shape) : w.data[f] = 0

\* the channel of the convolution that produced entry f (1-based) of a
\* returned output: axis 1 of the output, except in the spatial-only layer,
\* whose convolution runs on the folded axis (channel * V + vertex)
ConvChannel(self, out, f) ==
    LET idx == Unravel(out.shape, f - 1)
    IN  IF self.conv.cls = "SpatialConv" THEN idx[2] * out.shape[3] + idx[3] ELSE idx[2]

\* the layer of the end-to-end example, with the default execution flags
IsExample ==
    /\ layer.pc = "built"
    /\ layer.cfg.conv_name = "spherical"
    /\ lapArg.shape = <<ExampleInput[3], ExampleInput[3]>>
    /\ layer.cfg.kernel_sizeSph = 3
    /\ layer.cfg.in_channels = ExampleInput[2]
    /\ layer.cfg.out_channels = ExampleOutput[2]
    /\ ~layer.cfg.precompute /\ ~layer.cfg.einsum

\* C7: in a layer built with a bias the bias is 0.01 right after construction;
\* if all its weight tensors are zero, every element of a returned output is
\* the bias of the convolution channel that produced it; and the example
\* layer (12 vertices, K = 3, Fin = 2, Fout = 4) with zero weights returns a
\* [1, 4, 12, 1, 1, 1] tensor on a [1, 2, 12, 1, 1, 1] input.
C7_ZeroWeightsGiveBias ==
    (layer.pc = "built" /\ layer.conv.bias.ok) =>
        /\ layer.steps = 0 => layer.conv.bias = Full(<<layer.cfg.out_channels>>, BiasFill)
        /\ (Ran /\ fwdOut.pc = "returned" /\ ZeroWeights(layer.conv)) =>
              \A f \in 1..Numel(fwdOut.x.shape) :
                  fwdOut.x.data[f] = layer.conv.bias.data[ConvChannel(layer, fwdOut.x, f) + 1]
        /\ (Ran /\ IsExample /\ ZeroWeights(layer.conv) /\ fwdIn.x.shape = ExampleInput) =>
              fwdOut.pc = "returned" /\ fwdOut.x.shape = ExampleOutput

C7_Witness ==
    /\ Ran /\ IsExample /\ ZeroWeights(layer.conv)
    /\ fwdOut.pc = "returned"
    /\ fwdOut.x.shape = ExampleOutput
    /\ fwdOut.x.data = [f \in 1..Numel(ExampleOutput) |-> BiasFill]

-----------------------------------------------------------------------------
(* Specification SpecMask: construction of the layers with an isotropic     *)
(* spatial kernel, which builds the selection mask with get_index           *)


MaskCalls ==
    {[pc |-> "call", in_channels |-> i, out_channels |-> o, kernel_sizeSpa |-> s,
      bias |-> b, conv |-> Idle] :
        i \in 1..MaxMaskChannels, o \in 1..MaxMaskChannels, s \in 1..MaxSize,
        b \in BOOLEAN}

MaskInit ==
    /\ iso \in MaskCalls
    /\ cheb = Idle /\ lapArg = Idle /\ layer = Idle /\ fwdIn = Idle /\ fwdOut = Idle
    /\ smp = Idle /\ shp = Idle

MaskOthersUnchanged == UNCHANGED <<cheb, lapArg, layer, fwdIn, fwdOut, smp, shp>>

\* SO3SE3Conv(in_channels, out_channels, kernel_sizeSph, kernel_sizeSpa, bias, isoSpa=True)
BuildSO3SE3Conv ==
    /\ iso.pc = "call"
    /\ \E kernel_sizeSph \in 1..2 :
          iso' = [iso EXCEPT !.pc = "done",
                             !.conv = SO3SE3Conv_init(iso.in_channels, iso.out_channels,
                                                      kernel_sizeSph, iso.kernel_sizeSpa,
                                                      iso.bias, TRUE, FALSE, FALSE, "iota")]
    /\ MaskOthersUnchanged

\* SpatialConv(in_channels, out_channels, kernel_sizeSpa, bias, isoSpa=True)
BuildSpatialConv ==
    /\ iso.pc = "call"
    /\ iso' = [iso EXCEPT !.pc = "done",
                          !.conv = SpatialConv_init(iso.in_channels, iso.out_channels,
                                                    iso.kernel_sizeSpa, iso.bias, TRUE, "iota")]
    /\ MaskOthersUnchanged

MaskNext == BuildSO3SE3Conv \/ BuildSpatialConv

SpecMask == MaskInit /\ [][MaskNext]_vars

\* C4: for every kernel size s (odd or even) the mask built by get_index has
\* shape [Fout, Fin, s, s, s, R], its entries are 0 or 1, and for every channel
\* pair and every one of the s^3 offsets exactly one bucket holds 1, so the
\* sum over the bucket axis is 1 everywhere.
C4_MaskOneBucket ==
    iso.pc = "done" =>
        LET m == iso.conv.weight_tmp
            s == iso.kernel_sizeSpa
            R == m.shape[6]
        IN  /\ m.ok
            /\ m.shape = <<iso.out_channels, iso.in_channels, s, s, s, R>>
            /\ \A f \in 1..Numel(m.shape) : m.data[f] \in {0, 1}
            /\ SumLast(m) = Full(<<iso.out_channels, iso.in_channels, s, s, s>>, 1)
            /\ \A g \in 0..(Numel(m.shape) \div R - 1) :
                  Cardinality({r \in 0..(R - 1) : m.data[g * R + r + 1] = 1}) = 1

C4_Witness ==
    /\ iso.pc = "done"
    /\ iso.kernel_sizeSpa = 4
    /\ iso.conv.cls = "SpatialConv"
    /\ iso.conv.weight_tmp.shape[6] = 4
    /\ At(iso.conv.weight_tmp, <<0, 0, 0, 0, 0, 3>>) = 1
    /\ At(iso.conv.weight_tmp, <<0, 0, 1, 2, 1, 0>>) = 1
    /\ At(iso.conv.weight_tmp, <<0, 0, 1, 2, 1, 3>>) = 0

\* the offsets of a kernel of size s, and four times the squared Euclidean
\* distance of an offset from the kernel centre
Offsets(s) == {<<x, y, z>> : x \in 0..(s - 1), y \in 0..(s - 1), z \in 0..(s - 1)}
CentreDistance4(s, a) ==
    (2 * a[1] - (s - 1)) ^ 2 + (2 * a[2] - (s - 1)) ^ 2 + (2 * a[3] - (s - 1)) ^ 2

\* the 48 symmetries of the cube: an axis permutation p and sign flips f
AxisPermutations == {p \in [1..3 -> 1..3] : \A d, e \in 1..3 : p[d] = p[e] => d = e}
SignFlips == [1..3 -> BOOLEAN]
CubeImage(s, p, f, a) == [d \in 1..3 |-> IF f[d] THEN s - 1 - a[p[d]] ELSE a[p[d]]]

\* the compact weights of each channel pair are pairwise distinct
CompactDistinct(w) ==
    \A o \in 0..(w.shape[1] - 1), i \in 0..(w.shape[2] - 1) :
        \A q, r \in 0..(w.shape[6] - 1) :
            At(w, <<o, i, 0, 0, 0, q>>) = At(w, <<o, i, 0, 0, 0, r>>) => q = r

\* C16: the kernel torch.sum(weight_tmp * weightSpa, -1) of an isotropic layer
\* with pairwise distinct compact weights gives two offsets the same weight,
\* for each channel pair, exactly when they are at the same distance from the
\* centre; so it is the same at an offset and at each of its 48 cube images
C16_IsotropicKernel ==
    (iso.pc = "done" /\ CompactDistinct(iso.conv.weightSpa)) =>
        LET kernel == IsoKernel(iso.conv.weight_tmp, iso.conv.weightSpa)
            s == iso.kernel_sizeSpa
        IN  /\ kernel.shape = <<iso.out_channels, iso.in_channels, s, s, s>>
            /\ \A o \in 0..(iso.out_channels - 1), i \in 0..(iso.in_channels - 1) :
                  /\ \A a, b \in Offsets(s) :
                        (At(kernel, <<o, i>> \o a) = At(kernel, <<o, i>> \o b))
                            <=> (CentreDistance4(s, a) = CentreDistance4(s, b))
                  /\ \A a \in Offsets(s), p \in AxisPermutations, f \in SignFlips :
                        At(kernel, <<o, i>> \o CubeImage(s, p, f, a))
                            = At(kernel, <<o, i>> \o a)

\* a kernel of size 3 with its four distances
C16_Witness ==
    /\ iso.pc = "done" /\ iso.kernel_sizeSpa = 3 /\ iso.conv.cls = "SO3SE3Conv"
    /\ CompactDistinct(iso.conv.weightSpa)
    /\ iso.conv.weightSpa.shape[6] = 4
    /\ LET kernel == IsoKernel(iso.conv.weight_tmp, iso.conv.weightSpa)
       IN  /\ At(kernel, <<0, 0, 0, 1, 2>>) = At(kernel, <<0, 0, 2, 0, 1>>)
           /\ At(kernel, <<0, 0, 0, 1, 2>>) # At(kernel, <<0, 0, 1, 1, 2>>)
           /\ Cardinality({At(kernel, <<0, 0>> \o a) : a \in Offsets(3)}) = 4

-----------------------------------------------------------------------------
(* Specification SpecShape: the shapes through one layer, at the vertex     *)
(* counts of the HEALPix grids and the kernel sizes of the benchmark; the   *)
(* state keeps the shapes only                                              *)

\* 12 * n_side^2 vertices for n_side 1, 2, 4
VertexCounts == {12, 48, 192}
\* spatial kernel sizes of the benchmark
ShapeKernels == {1, 3, 5}
\* largest batch and largest feature count of a shape run
MaxShapeBatch == 2
\* spatial extents X, Y, Z of the inputs
ShapeExtents == {<<10, 10, 10>>, <<10, 11, 12>>}

\* the layers as the network builds them: a spatial layer is given the
\* feature count times the vertex count (train.py), the others the feature count
ShapeConfigs(V) ==
    {[conv_name |-> "spherical", in_channels |-> 1, out_channels |-> 2,
      kernel_sizeSph |-> 3, kernel_sizeSpa |-> s, bias |-> TRUE, isoSpa |-> TRUE,
      dense |-> d, precompute |-> p, einsum |-> e, repeat_interleave |-> FALSE] :
        s \in ShapeKernels, d \in BOOLEAN, p \in BOOLEAN, e \in BOOLEAN}
    \cup
    {[conv_name |-> "mixed", in_channels |-> 1, out_channels |-> 2,
      kernel_sizeSph |-> 2, kernel_sizeSpa |-> s, bias |-> TRUE, isoSpa |-> iso_,
      dense |-> d, precompute |-> p, einsum |-> e, repeat_interleave |-> FALSE] :
        s \in ShapeKernels, iso_ \in BOOLEAN, d \in BOOLEAN, p \in BOOLEAN,
        e \in BOOLEAN}
    \cup
    {[conv_name |-> "spatial", in_channels |-> V, out_channels |-> 2 * V,
      kernel_sizeSph |-> 3, kernel_sizeSpa |-> s, bias |-> TRUE, isoSpa |-> iso_,
      dense |-> FALSE, precompute |-> FALSE, einsum |-> FALSE,
      repeat_interleave |-> FALSE] :
        s \in ShapeKernels, iso_ \in BOOLEAN}

ShapeInit ==
    /\ shp = [pc |-> "start"]
    /\ cheb = Idle /\ lapArg = Idle /\ layer = Idle /\ fwdIn = Idle /\ fwdOut = Idle
    /\ iso = Idle /\ smp = Idle

ShapeOthersUnchanged == UNCHANGED <<cheb, lapArg, layer, fwdIn, fwdOut, iso, smp>>

\* Conv(...) on the Laplacian of a grid of V vertices
ShapeBuild ==
    /\ shp.pc = "start"
    /\ \E V \in VertexCounts :
         \E cfg \in ShapeConfigs(V) :
            shp' = [pc |-> Conv_init(cfg, Ring(V), "iota").pc, V |-> V, cfg |-> cfg]
    /\ ShapeOthersUnchanged

\* layer(x) for x of shape [B, 1, V, X, Y, Z]
ShapeForward ==
    /\ shp.pc = "built"
    /\ \E B \in 1..MaxShapeBatch, e \in ShapeExtents :
          LET inShape == <<B, 1, shp.V>> \o e
              out == Conv_forward(Conv_init(shp.cfg, Ring(shp.V), "iota"), Iota(inShape))
          IN  shp' = [pc |-> IF out.ok THEN "returned" ELSE "raised", V |-> shp.V,
                      cfg |-> shp.cfg, inShape |-> inShape,
                      outShape |-> IF out.ok THEN out.shape ELSE <<>>]
    /\ ShapeOthersUnchanged

ShapeNext == ShapeBuild \/ ShapeForward

SpecShape == ShapeInit /\ [][ShapeNext]_vars

\* C5: for every variant (spherical, mixed, spatial), every spatial kernel
\* size in {1, 3, 5} and every vertex count in {12, 48, 192}, the layer built
\* with the default flags returns an output, and the extents X, Y, Z of every
\* output a layer returns are those of its input.
C5_ExtentsPreserved ==
    /\ (shp.pc = "raised" => shp.cfg.precompute)
    /\ shp.pc = "returned" =>
        /\ Len(shp.outShape) = 6
        /\ SubSeq(shp.outShape, 4, 6) = SubSeq(shp.inShape, 4, 6)
        /\ shp.outShape[1] = shp.inShape[1]
        /\ shp.outShape[3] = shp.V

C5_Witness ==
    /\ shp.pc = "returned"
    /\ shp.cfg.conv_name = "mixed"
    /\ shp.cfg.kernel_sizeSpa = 5
    /\ shp.V = 192
    /\ shp.inShape = <<2, 1, 192, 10, 11, 12>>
    /\ shp.outShape = <<2, 2, 192, 10, 11, 12>>

-----------------------------------------------------------------------------
(* sampling.py: Sampling and _sh_matrix. A set of directions is kept by its *)
(* number N; a matrix by its shape and a description of each of its rows    *)

\* largest number of directions
MaxVectors == 7
\* largest sh_degree / max_sh_degree handed to Sampling
MaxDegree == 4

\* an optional argument: None, or the value
None == <<>>
Some(v) == <<v>>

\* the number c * sqrt(4*pi)^p / d
Real(c, p, d) == [coef |-> c, sqrtFourPi |-> p, over |-> d]

\* floor of the square root
Isqrt(n) == CHOOSE r \in 0..n : r * r <= n /\ n < (r + 1) * (r + 1)

\* 2*int((np.sqrt(8*vectors.shape[0]-7) - 3) / 4); int() truncates toward zero
\* and the quotient is above -1, so it is 0 whenever the square root is below 3
\* (in the slip the square root is that of 8*N+1)
DerivedDegreeInclusive(N) ==
    LET r == Isqrt(8 * N + 1)
    IN  IF r < 3 THEN 0 ELSE 2 * ((r - 3) \div 4)
DerivedDegree(N) ==
    LET r == Isqrt(8 * N - 7)
    IN  IF r < 3 THEN 0 ELSE 2 * ((r - 3) \div 4)

Min(a, b) == IF a <= b THEN a ELSE b

\* a slip: the orders of a degree run from +l down to -l
RECURSIVE HarmonicRowsDescending(_, _, _, _)
HarmonicRowsDescending(id_degree, sh_degree, with_order, symmetric) ==
    IF id_degree > sh_degree THEN <<>>
    ELSE [j \in 1..(2 * id_degree * with_order + 1) |->
            LET id_order == id_degree * with_order - (j - 1)
            IN  [kind |-> "harmonic", degree |-> id_degree, order |-> id_order,
                 part |-> IF id_order < 0 THEN "sqrt2*imag"
                          ELSE IF id_order = 0 THEN "real" ELSE "sqrt2*real"]]
         \o HarmonicRowsDescending(id_degree + (IF symmetric THEN 2 ELSE 1), sh_degree,
                                   with_order, symmetric)

\* the rows _sh_matrix writes for one direction, in the order of its loops:
\* "for id_degree in range(0, sh_degree + 1, int(symmetric + 1))"
\* "for id_order in range(-id_degree * with_order, id_degree * with_order + 1)"
RECURSIVE HarmonicRows(_, _, _, _)
HarmonicRows(id_degree, sh_degree, with_order, symmetric) ==
    IF id_degree > sh_degree THEN <<>>
    ELSE [j \in 1..(2 * id_degree * with_order + 1) |->
            LET id_order == j - 1 - id_degree * with_order
            IN  [kind |-> "harmonic", degree |-> id_degree, order |-> id_order,
                 part |-> IF id_order < 0 THEN "sqrt2*imag"
                          ELSE IF id_order = 0 THEN "real" ELSE "sqrt2*real"]]
         \o HarmonicRows(id_degree + (IF symmetric THEN 2 ELSE 1), sh_degree,
                         with_order, symmetric)

Raised(error) == [ok |-> FALSE, error |-> error]

\* np.linalg.inv(np.matmul(b, b.transpose())) either inverts or raises
\* LinAlgError, depending on the directions; a 1 x 1 product is positive
InvOutcomes == {"inverted", "LinAlgError"}

\* _sh_matrix(sh_degree, vector, with_order, symmetric) for N directions
_sh_matrix(sh_degree, N, with_order, symmetric, inv) ==
    IF with_order \notin {0, 1} THEN Raised("ValueError")
    ELSE IF symmetric /\ (sh_degree % 2) # 0 THEN Raised("ValueError")
    ELSE
    LET num_coefficients ==
            IF symmetric
            THEN IF with_order = 1 THEN (sh_degree + 1) * ((sh_degree \div 2) + 1)
                 ELSE (sh_degree \div 2) + 1
            ELSE IF with_order = 1 THEN (sh_degree + 1) * (sh_degree + 1)
                 ELSE sh_degree + 1
        rows == HarmonicRows(0, sh_degree, with_order, symmetric)
    IN  IF Len(rows) > num_coefficients THEN Raised("IndexError")
        ELSE IF num_coefficients > 1 /\ inv = "LinAlgError" THEN Raised("LinAlgError")
        ELSE [ok |-> TRUE, error |-> "",
              spatial2spectral |-> [shape |-> <<N, num_coefficients>>,
                                    kind |-> "b.T (b b.T)^-1", b |-> rows],
              spectral2spatial |-> [shape |-> <<num_coefficients, N>>,
                                    kind |-> "b", b |-> rows]]

\* np.ones((N, 1)) * math.sqrt(4*math.pi) / N, with the entries divided by 1
\* in the slip below
ConstantS2SHUndivided(N) ==
    [shape |-> <<N, 1>>, rows |-> [i \in 1..N |-> Real(1, 1, 1)]]

ConstantS2SH(N) ==
    [shape |-> <<N, 1>>, rows |-> [i \in 1..N |-> Real(1, 1, N)]]

\* np.zeros(((sh_degree+1)*(sh_degree//2+1), N)) with row 0 set to 1/sqrt(4*pi)
ConstantSH2S(sh_degree, N) ==
    LET n == (sh_degree + 1) * ((sh_degree \div 2) + 1)
    IN  [shape |-> <<n, N>>,
         rows |-> [i \in 1..n |-> IF i = 1 THEN Real(1, -1, 1) ELSE Real(0, 0, 1)]]

\* Sampling.__init__(vectors, sh_degree, max_sh_degree, constant) for N vectors;
\* inv1 and inv2 are the outcomes of the inversions of its two sh_matrix calls
Sampling_init(N, sh_degree_arg, max_sh_degree, constant, inv1, inv2) ==
    LET derived == DerivedDegree(N)
        sh_degree ==
            IF sh_degree_arg = None
            THEN IF max_sh_degree # None THEN Min(derived, max_sh_degree[1]) ELSE derived
            ELSE sh_degree_arg[1]
        first == _sh_matrix(sh_degree, N, 1, TRUE, inv1)
        capped == Min(derived, sh_degree)
        sh_degree_s2sh ==
            IF max_sh_degree # None THEN Min(capped, max_sh_degree[1]) ELSE capped
        second == _sh_matrix(sh_degree_s2sh, N, 1, TRUE, inv2)
        args == [N |-> N, sh_degree_arg |-> sh_degree_arg, max_sh_degree |-> max_sh_degree,
                 constant |-> constant, derived |-> derived, sh_degree |-> sh_degree]
    IN  IF constant
        THEN [pc |-> "built", error |-> "", inverted |-> 0, sh_degree_s2sh |-> 0,
              S2SH |-> ConstantS2SH(N), SH2S |-> ConstantSH2S(sh_degree, N)] @@ args
        ELSE IF ~first.ok
        THEN [pc |-> "raised", error |-> first.error, inverted |-> 0,
              sh_degree_s2sh |-> 0] @@ args
        ELSE IF ~second.ok
        THEN [pc |-> "raised", error |-> second.error, inverted |-> 1,
              sh_degree_s2sh |-> sh_degree_s2sh] @@ args
        ELSE [pc |-> "built", error |-> "", inverted |-> 2,
              sh_degree_s2sh |-> sh_degree_s2sh,
              S2SH |-> second.spatial2spectral, SH2S |-> first.spectral2spatial] @@ args

-----------------------------------------------------------------------------
(* Specification SpecSampling: one construction of a Sampling, or one call  *)
(* of _sh_matrix, on N directions                                           *)

Degrees == {None} \cup {Some(d) : d \in 0..MaxDegree}

SamplingInit ==
    /\ smp \in {[pc |-> "args", N |-> N, sh_degree_arg |-> d, max_sh_degree |-> m,
                 constant |-> c] :
                    N \in 1..MaxVectors, d \in Degrees, m \in Degrees, c \in BOOLEAN}
    /\ cheb = Idle /\ lapArg = Idle /\ layer = Idle /\ fwdIn = Idle /\ fwdOut = Idle
    /\ iso = Idle /\ shp = Idle

SamplingOthersUnchanged == UNCHANGED <<cheb, lapArg, layer, fwdIn, fwdOut, iso, shp>>

\* Sampling(vectors, sh_degree, max_sh_degree, constant)
NewSampling ==
    /\ smp.pc = "args"
    /\ \E inv1 \in InvOutcomes, inv2 \in InvOutcomes :
          smp' = Sampling_init(smp.N, smp.sh_degree_arg, smp.max_sh_degree, smp.constant,
                               inv1, inv2)
    /\ SamplingOthersUnchanged

\* _sh_matrix(sh_degree, vectors, with_order, symmetric) called on its own
CallShMatrix ==
    /\ smp.pc = "args"
    /\ smp.sh_degree_arg # None
    /\ \E with_order \in 0..2, symmetric \in BOOLEAN, inv \in InvOutcomes :
          LET r == _sh_matrix(smp.sh_degree_arg[1], smp.N, with_order, symmetric, inv)
          IN  smp' = [pc |-> IF r.ok THEN "matrices" ELSE "matrixRaised",
                      N |-> smp.N, sh_degree |-> smp.sh_degree_arg[1],
                      with_order |-> with_order, symmetric |-> symmetric,
                      result |-> r]
    /\ SamplingOthersUnchanged

SamplingNext == NewSampling \/ CallShMatrix

SpecSampling == SamplingInit /\ [][SamplingNext]_vars

Constructed == smp.pc \in {"built", "raised"}

\* the number of coefficients of the symmetric basis up to the even degree L
NumCoefficients(L) == (L + 1) * ((L \div 2) + 1)

\* C8 (as stated): a constant Sampling has S2SH of shape [N, 1] with every
\* entry sqrt(4 pi)/N and SH2S of shape [1, N] with every entry 1/sqrt(4 pi),
\* for every N and every degree setting.
C8_ConstantShapes ==
    (Constructed /\ smp.constant) =>
        /\ smp.pc = "built"
        /\ smp.S2SH = ConstantS2SH(smp.N)
        /\ smp.SH2S.shape = <<1, smp.N>>
        /\ \A i \in 1..Len(smp.SH2S.rows) : smp.SH2S.rows[i] = Real(1, -1, 1)

\* C8 (amended): a constant Sampling is always built, without any inversion;
\* S2SH has shape [N, 1] with every entry sqrt(4 pi)/N; SH2S has shape
\* [(d+1)(d//2+1), N] for the degree d in use (sh_degree when given, otherwise
\* the degree derived from N, capped by max_sh_degree), its first row is
\* 1/sqrt(4 pi) and every other row is 0; it is [1, N] exactly when d = 0.
C8_ConstantShapesAmended ==
    (Constructed /\ smp.constant) =>
        /\ smp.pc = "built"
        /\ smp.inverted = 0
        /\ smp.S2SH.shape = <<smp.N, 1>>
        /\ \A i \in 1..smp.N : smp.S2SH.rows[i] = Real(1, 1, smp.N)
        /\ smp.sh_degree = (IF smp.sh_degree_arg # None THEN smp.sh_degree_arg[1]
                            ELSE IF smp.max_sh_degree # None
                                 THEN Min(DerivedDegree(smp.N), smp.max_sh_degree[1])
                                 ELSE DerivedDegree(smp.N))
        /\ smp.SH2S.shape = <<(smp.sh_degree + 1) * ((smp.sh_degree \div 2) + 1), smp.N>>
        /\ Len(smp.SH2S.rows) = smp.SH2S.shape[1]
        /\ smp.SH2S.rows[1] = Real(1, -1, 1)
        /\ \A i \in 2..Len(smp.SH2S.rows) : smp.SH2S.rows[i] = Real(0, 0, 1)
        /\ (smp.SH2S.shape = <<1, smp.N>>) <=> (smp.sh_degree = 0)

C8_Witness ==
    /\ smp.pc = "built" /\ smp.constant
    /\ smp.N = 6
    /\ smp.sh_degree_arg = Some(2)
    /\ smp.S2SH.shape = <<6, 1>>
    /\ smp.SH2S.shape = <<6, 6>>
    /\ smp.SH2S.rows[2] = Real(0, 0, 1)

\* C9 (as stated): the degree Sampling derives from N when sh_degree is not
\* given, and the cap it applies to S2SH when it is, is the largest even
\* degree L with (L+1)(L/2+1) <= N.
C9_DerivedDegreeIsLargest ==
    Constructed =>
        /\ smp.derived % 2 = 0
        /\ NumCoefficients(smp.derived) <= smp.N
        /\ NumCoefficients(smp.derived + 2) > smp.N
        /\ (smp.sh_degree_arg = None /\ smp.max_sh_degree = None) =>
               smp.sh_degree = smp.derived

\* C10 (as stated): a construction of Sampling, or a symmetric call of
\* _sh_matrix, that requests an odd degree fails with a validation error and
\* yields no matrices, whatever the other arguments.
C10_OddDegreeRejected ==
    /\ (Constructed /\ smp.sh_degree_arg # None /\ smp.sh_degree % 2 = 1) =>
           smp.pc = "raised" /\ smp.error = "ValueError"
    /\ (smp.pc \in {"matrices", "matrixRaised"} /\ smp.symmetric /\ smp.sh_degree % 2 = 1) =>
           smp.pc = "matrixRaised" /\ smp.result.error = "ValueError"

-----------------------------------------------------------------------------
(* graphconv.py: the layers of ConvPrecomputed and the state_dict of every  *)
(* layer                                                                    *)

\* the buffer "projector" of ChebConvPrecomputed and SO3SE3ConvPrecomputer:
\* precompute_projection(lap.to_dense(), K).permute(0, 2, 1).reshape(K*V, V)
PrecomputedProjector(lap, K) ==
    IF ~lap.ok THEN ErrT
    ELSE Reshape(Permute(precompute_projection(lap, K), <<0, 2, 1>>),
                 <<K * lap.shape[1], lap.shape[1]>>)

\* ChebConvPrecomputed.__init__ with kaiming_initialization
ChebConvPrecomputed_init(lap, in_channels, out_channels, kernel_size, bias, dense, draw) ==
    [cls |-> "ChebConvPrecomputed", in_channels |-> in_channels,
     out_channels |-> out_channels, kernel_sizeSph |-> kernel_size, kernel_sizeSpa |-> 0,
     isoSpa |-> FALSE,
     projector |-> PrecomputedProjector(lap, kernel_size),
     weight |-> Fill(<<kernel_size * in_channels, out_channels>>, draw),
     weightSph |-> ErrT, weightSpa |-> ErrT, weight_tmp |-> ErrT,
     bias |-> IF bias THEN Fill(<<1, out_channels, 1, 1, 1, 1>>, "fill") ELSE ErrT]

\* SO3SE3ConvPrecomputer.__init__ with kaiming_initialization
SO3SE3ConvPrecomputer_init(lap, in_channels, out_channels, kernel_sizeSph, kernel_sizeSpa, bias, isoSpa, dense, draw) ==
    LET weight_tmp == IF isoSpa
                      THEN get_index(out_channels, in_channels, kernel_sizeSpa)
                      ELSE ErrT
        shape == IF isoSpa
                 THEN <<out_channels, in_channels, 1, 1, 1, weight_tmp.shape[6]>>
                 ELSE <<out_channels, in_channels,
                        kernel_sizeSpa, kernel_sizeSpa, kernel_sizeSpa>>
    IN  [cls |-> "SO3SE3ConvPrecomputer", in_channels |-> in_channels,
         out_channels |-> out_channels, kernel_sizeSph |-> kernel_sizeSph,
         kernel_sizeSpa |-> kernel_sizeSpa, isoSpa |-> isoSpa,
         projector |-> PrecomputedProjector(lap, kernel_sizeSph),
         weight |-> ErrT,
         weightSph |-> Fill(<<out_channels, in_channels * kernel_sizeSph, 1, 1, 1>>, draw),
         weightSpa |-> Fill(shape, draw), weight_tmp |-> weight_tmp,
         bias |-> IF bias THEN Fill(<<out_channels>>, "fill") ELSE ErrT]

\* SpatialConvPrecomputed.__init__ with kaiming_initialization
SpatialConvPrecomputed_init(in_channels, out_channels, kernel_sizeSpa, bias, isoSpa, draw) ==
    LET weight_tmp == IF isoSpa
                      THEN get_index(out_channels, in_channels, kernel_sizeSpa)
                      ELSE ErrT
        shape == IF isoSpa
                 THEN <<out_channels, in_channels, 1, 1, 1, weight_tmp.shape[6]>>
                 ELSE <<out_channels, in_channels,
                        kernel_sizeSpa, kernel_sizeSpa, kernel_sizeSpa>>
    IN  [cls |-> "SpatialConvPrecomputed", in_channels |-> in_channels,
         out_channels |-> out_channels, kernel_sizeSph |-> 0,
         kernel_sizeSpa |-> kernel_sizeSpa, isoSpa |-> isoSpa,
         projector |-> ErrT, weight |-> ErrT, weightSph |-> ErrT,
         weightSpa |-> Fill(shape, draw), weight_tmp |-> weight_tmp,
         bias |-> IF bias THEN Fill(<<1, out_channels, 1, 1, 1>>, "fill") ELSE ErrT]

\* FiberBundleConvFixedGraph.__init__ and FiberBundleConvFixedGraphMLP.__init__:
\* the members they register; the filter shapes come from
\* invariant_attr_r3s2_fiber_bundle and are not followed
FiberBundleConv_init(cls, in_channels, out_channels, kernel_size, bias) ==
    [cls |-> cls, in_channels |-> in_channels, out_channels |-> out_channels,
     kernel_sizeSph |-> 0, kernel_sizeSpa |-> kernel_size, isoSpa |-> FALSE,
     projector |-> ErrT, weight |-> ErrT, weightSph |-> ErrT, weightSpa |-> ErrT,
     weight_tmp |-> ErrT,
     bias |-> IF bias THEN Fill(<<1, out_channels, 1, 1, 1, 1>>, "fill") ELSE ErrT]

\* the conv_name values ConvPrecomputed.__init__ implements
PrecomputedNames == SpatialNames \cup {"spherical", "mixed", "bekkers", "bekkers2"}

\* ConvPrecomputed.__init__
ConvPrecomputed_init(cfg, lap, draw) ==
    IF cfg.conv_name \notin PrecomputedNames
    THEN [pc |-> "failed", error |-> "NotImplementedError", cfg |-> cfg]
    ELSE
    LET conv ==
          IF cfg.conv_name = "spherical"
          THEN ChebConvPrecomputed_init(lap, cfg.in_channels, cfg.out_channels,
                                        cfg.kernel_sizeSph, cfg.bias, cfg.dense, draw)
          ELSE IF cfg.conv_name = "mixed"
          THEN SO3SE3ConvPrecomputer_init(lap, cfg.in_channels, cfg.out_channels,
                                          cfg.kernel_sizeSph, cfg.kernel_sizeSpa, cfg.bias,
                                          cfg.isoSpa, cfg.dense, draw)
          ELSE IF cfg.conv_name \in SpatialNames
          THEN SpatialConvPrecomputed_init(cfg.in_channels, cfg.out_channels,
                                           cfg.kernel_sizeSpa, cfg.bias, cfg.isoSpa, draw)
          ELSE IF cfg.conv_name = "bekkers"
          THEN FiberBundleConv_init("FiberBundleConvFixedGraph", cfg.in_channels,
                                    cfg.out_channels, cfg.kernel_sizeSpa, TRUE)
          ELSE FiberBundleConv_init("FiberBundleConvFixedGraphMLP", cfg.in_channels,
                                    cfg.out_channels, cfg.kernel_sizeSpa, cfg.bias)
    IN  IF conv.cls \in {"ChebConvPrecomputed", "SO3SE3ConvPrecomputer"} /\ ~conv.projector.ok
        THEN [pc |-> "failed", error |-> "RuntimeError", cfg |-> cfg]
        ELSE [pc |-> "built", error |-> "", cfg |-> cfg, conv |-> conv]

\* one entry of a state_dict: its key as the path of names that torch joins
\* with ".", whether it is a parameter or a buffer, and what it holds
Entry(key, kind, holds) == [key |-> key, kind |-> kind, holds |-> holds]

\* a member that is None has no entry
Present(t, e) == IF t.ok THEN {e} ELSE {}

\* torch.nn.Module.state_dict of the inner convolution, under the prefix
\* "conv.": the parameters that are not None and the registered buffers
ModuleEntries(conv) ==
    Present(conv.weight, Entry(<<"conv", "weight">>, "parameter", "weight"))
    \cup Present(conv.weightSph, Entry(<<"conv", "weightSph">>, "parameter", "weight"))
    \cup Present(conv.weightSpa, Entry(<<"conv", "weightSpa">>, "parameter", "weight"))
    \cup Present(conv.bias, Entry(<<"conv", "bias">>, "parameter", "bias"))
    \cup Present(conv.weight_tmp, Entry(<<"conv", "weight_tmp">>, "buffer", "mask"))
    \cup (IF conv.cls \in {"ChebConvPrecomputed", "SO3SE3ConvPrecomputer"}
          THEN {Entry(<<"conv", "projector">>, "buffer", "projector")} ELSE {})
    \cup (IF conv.cls = "FiberBundleConvFixedGraph"
          THEN {Entry(<<"conv", "spatial_weight">>, "parameter", "weight"),
                Entry(<<"conv", "spherical_weight">>, "parameter", "weight"),
                Entry(<<"conv", "mixing", "weight">>, "parameter", "weight")}
          ELSE {})
    \cup (IF conv.cls = "FiberBundleConvFixedGraphMLP"
          THEN {Entry(<<"conv", "spatial_attr_unique_tuple">>, "buffer", "attributes"),
                Entry(<<"conv", "spherical_attr_unique">>, "buffer", "attributes")}
               \cup {Entry(<<"conv", m, l, "weight">>, "parameter", "weight") :
                        m \in {"basis", "fiber_basis"}, l \in {"1", "3", "5"}}
               \cup {Entry(<<"conv", m, l, "bias">>, "parameter", "bias") :
                        m \in {"basis", "fiber_basis"}, l \in {"1", "3"}}
          ELSE {})

\* key.endswith(suffix), for keys whose last name is one of the member names
EndsWith(key, suffix) == key[Len(key)] = suffix

\* the state_dict override of the inner class, where it has one:
\* ChebConvPrecomputed and SO3SE3ConvPrecomputer delete the keys that end
\* with "projector"
InnerStateDict(conv) ==
    IF conv.cls \in {"ChebConvPrecomputed", "SO3SE3ConvPrecomputer"}
    THEN {e \in ModuleEntries(conv) : ~EndsWith(e.key, "projector")}
    ELSE ModuleEntries(conv)

\* Conv.state_dict: the buffer "laplacian" and the entries of the inner
\* convolution, without the keys that end with "laplacian"
Conv_state_dict(self) ==
    LET all == {Entry(<<"laplacian">>, "buffer",
                      IF self.precompute THEN "projector" ELSE "laplacian")}
               \cup InnerStateDict(self.conv)
    IN  {e \in all : ~EndsWith(e.key, "laplacian")}

\* ConvPrecomputed.state_dict
ConvPrecomputed_state_dict(self) ==
    {e \in InnerStateDict(self.conv) : ~EndsWith(e.key, "laplacian")}

-----------------------------------------------------------------------------
(* Specification SpecFactory: one construction of Conv or ConvPrecomputed,  *)
(* then its state_dict                                                      *)

\* conv_name values: the implemented ones and some that no factory implements
FactoryNames == PrecomputedNames \cup {"", "Spherical", "chebyshev"}

FactoryLaplacians == {Tensor(<<2, 2>>, <<0, 1, 0, 0>>), Tensor(<<2, 2>>, <<1, -1, -1, 1>>)}

FactoryConfigs(factory) ==
    {[factory |-> factory, conv_name |-> n, in_channels |-> 1, out_channels |-> 2,
      kernel_sizeSph |-> 2, kernel_sizeSpa |-> s, bias |-> b, isoSpa |-> iso_,
      dense |-> FALSE, precompute |-> p, einsum |-> FALSE, repeat_interleave |-> FALSE] :
        n \in FactoryNames, s \in 1..2, b \in BOOLEAN, iso_ \in BOOLEAN,
        p \in (IF factory = "Conv" THEN BOOLEAN ELSE {FALSE})}

FactoryInit ==
    /\ lapArg \in FactoryLaplacians
    /\ layer = Idle /\ fwdOut = Idle
    /\ cheb = Idle /\ fwdIn = Idle /\ iso = Idle /\ smp = Idle /\ shp = Idle

FactoryOthersUnchanged == UNCHANGED <<cheb, lapArg, fwdIn, iso, smp, shp>>

\* Conv(in_channels, out_channels, lap, ..., conv_name=...)
NewConv ==
    /\ layer = Idle
    /\ \E cfg \in FactoryConfigs("Conv") : layer' = Conv_init(cfg, lapArg, "iota")
    /\ UNCHANGED fwdOut
    /\ FactoryOthersUnchanged

\* ConvPrecomputed(in_channels, out_channels, lap, ..., conv_name=...)
NewConvPrecomputed ==
    /\ layer = Idle
    /\ \E cfg \in FactoryConfigs("ConvPrecomputed") :
          layer' = ConvPrecomputed_init(cfg, lapArg, "iota")
    /\ UNCHANGED fwdOut
    /\ FactoryOthersUnchanged

\* layer.state_dict()
StateDict ==
    /\ layer.pc = "built"
    /\ fwdOut = Idle
    /\ fwdOut' = [pc |-> "state_dict",
                  entries |-> IF layer.cfg.factory = "Conv" THEN Conv_state_dict(layer)
                              ELSE ConvPrecomputed_state_dict(layer)]
    /\ UNCHANGED layer
    /\ FactoryOthersUnchanged

FactoryNext == NewConv \/ NewConvPrecomputed \/ StateDict

SpecFactory == FactoryInit /\ [][FactoryNext]_vars

\* C11: a construction of Conv or ConvPrecomputed with a conv_name its
\* factory does not implement fails with NotImplementedError, and every layer
\* that is returned has its inner convolution set.
C11_UnknownNameRejected ==
    LET implemented ==
            IF layer.cfg.factory = "Conv"
            THEN {"spherical", "mixed", "spatial", "spatial_vec", "spatial_sh"}
            ELSE {"spherical", "mixed", "spatial", "spatial_vec", "spatial_sh",
                  "bekkers", "bekkers2"}
    IN  layer # Idle =>
        /\ layer.cfg.conv_name \notin implemented =>
               (layer.pc = "failed" /\ layer.error = "NotImplementedError")
        /\ layer.pc = "built" =>
               /\ layer.cfg.conv_name \in implemented
               /\ layer.conv.cls \in {"ChebConv", "SO3SE3Conv", "SpatialConv",
                                      "ChebConvPrecomputed", "SO3SE3ConvPrecomputer",
                                      "SpatialConvPrecomputed", "FiberBundleConvFixedGraph",
                                      "FiberBundleConvFixedGraphMLP"}

C11_Witness ==
    /\ layer # Idle
    /\ layer.cfg.factory = "Conv"
    /\ layer.cfg.conv_name = "bekkers"
    /\ layer.cfg.precompute
    /\ layer.pc = "failed" /\ layer.error = "NotImplementedError"

\* C12 (as stated): for every layer, the dictionary state_dict returns holds
\* no Laplacian, no Chebyshev projector and no isotropic mask; it holds only
\* learned parameters (weights and bias).
C12_StateDictOnlyParameters ==
    fwdOut.pc = "state_dict" =>
        \A e \in fwdOut.entries :
            /\ e.holds \notin {"laplacian", "projector", "mask"}
            /\ e.kind = "parameter"
            /\ e.holds \in {"weight", "bias"}

\* the matrix b of a symmetric call with orders: SH2S of a Sampling that is
\* not constant, or spectral2spatial of such a call of _sh_matrix
HarmonicCase ==
    \/ smp.pc = "built" /\ ~smp.constant
    \/ smp.pc = "matrices" /\ smp.with_order = 1 /\ smp.symmetric
HarmonicMatrix == IF smp.pc = "built" THEN smp.SH2S ELSE smp.result.spectral2spatial

\* C18: for an even degree L the loops of _sh_matrix write, for each of the N
\* directions, every one of the (L+1)(L/2+1) rows once: the row of degree l
\* and order m is row l(l+1)/2 + m, and it holds sqrt(2)*Im for m < 0, Re for
\* m = 0 and sqrt(2)*Re for m > 0
C18_RowOfDegreeOrder ==
    HarmonicCase =>
        LET L == smp.sh_degree
            rows == HarmonicMatrix.b
        IN  /\ L % 2 = 0
            /\ HarmonicMatrix.shape = <<(L + 1) * (L \div 2 + 1), smp.N>>
            /\ Len(rows) = (L + 1) * (L \div 2 + 1)
            /\ \A l \in {d \in 0..L : d % 2 = 0} : \A m \in (-l)..l :
                  LET row == rows[(l * (l + 1)) \div 2 + m + 1]
                  IN  /\ row.degree = l /\ row.order = m
                      /\ row.part = IF m < 0 THEN "sqrt2*imag"
                                    ELSE IF m = 0 THEN "real" ELSE "sqrt2*real"

\* the fifteen rows of degree 4
C18_Witness ==
    /\ smp.pc = "built" /\ ~smp.constant /\ smp.sh_degree = 4
    /\ Len(smp.SH2S.b) = 15
    /\ smp.SH2S.b[7].degree = 4 /\ smp.SH2S.b[7].order = -4
    /\ smp.SH2S.b[6].degree = 2 /\ smp.SH2S.b[6].order = 2

\* S2SH is b.T (b b.T)^-1 and SH2S is b for one and the same matrix b, so
\* that SH2S S2SH = b b.T (b b.T)^-1 is the identity
RoundTrip ==
    /\ smp.S2SH.kind = "b.T (b b.T)^-1" /\ smp.SH2S.kind = "b"
    /\ smp.S2SH.shape[2] = smp.SH2S.shape[1]
    /\ smp.S2SH.b = smp.SH2S.b

\* C19: in a Sampling that is not constant, built on N directions for an even
\* degree L with (L+1)(L/2+1) <= N, S2SH has as many columns as SH2S has rows
\* and coefficients c are recovered: c SH2S S2SH = c, and multiplying by SH2S
\* again gives the signal c SH2S back
C19_RoundTrip ==
    (/\ smp.pc = "built" /\ ~smp.constant
     /\ smp.sh_degree % 2 = 0
     /\ (smp.sh_degree + 1) * (smp.sh_degree \div 2 + 1) <= smp.N) => RoundTrip

-----------------------------------------------------------------------------
(* sampling.py: HealpixSampling. A mesh is kept by its resolution, its      *)
(* number of vertices and what the hemisphere code reads from it: the       *)
(* values np.sum(sel, axis=-1) takes over its vertices and the number of    *)
(* vertices index_north_hemi selects                                        *)

\* largest n_side
MaxNside == 4
\* largest depth
MaxDepth == 3
\* largest patch_size
MaxPatch == 5

Resolutions == 1..MaxNside

Npix(n_side) == 12 * n_side * n_side

\* a mesh whose vertices come in antipodal pairs
Paired(n_side) == [partnerSums |-> {1}, north |-> Npix(n_side) \div 2]

\* a mesh where "distance < -1+1e-5" holds for two partners of some vertex, or
\* for none
Unpaired(n_side) ==
    {[partnerSums |-> {1, 2}, north |-> Npix(n_side) \div 2],
     [partnerSums |-> {0, 1}, north |-> Npix(n_side) \div 2],
     [partnerSums |-> {0, 1}, north |-> Npix(n_side) \div 2 + 1]}

\* what SphereHealpix gives at each resolution: every mesh paired, or one not
MeshFamilies ==
    {[n \in Resolutions |-> Paired(n)]} \cup
    UNION {{[n \in Resolutions |-> IF n = r THEN d ELSE Paired(n)] : d \in Unpaired(r)} :
              r \in Resolutions}

\* G = SphereHealpix(n_side, nest=True, k=8)
SphereHealpix(n_side, meshes) ==
    [n_side |-> n_side, V |-> Npix(n_side)] @@ meshes[n_side]

\* "assert np.sum(np.sum(sel, axis=-1) != 1) == 0"
SomePartnerEach(G) == 0 \notin G.partnerSums
OnePartnerEach(G) == G.partnerSums = {1}

\* the Laplacian and the coordinates appended for mesh G
MeshLaplacian(G, hemisphere) ==
    LET rows == IF hemisphere THEN G.north ELSE G.V
    IN  [n_side |-> G.n_side, shape |-> <<rows, rows>>, hemisphere |-> hemisphere]

MeshCoords(G, hemisphere) ==
    [n_side |-> G.n_side, shape |-> <<IF hemisphere THEN G.north ELSE G.V, 3>>]

\* s[::-1]
Unreversed(s) == s
Reversed(s) == [j \in 1..Len(s) |-> s[Len(s) + 1 - j]]

SpatialPoolingNames == {"spatial", "spatial_vec", "spatial_sh"}

\* starting_nside//(2**i)
DepthNsideUndivided(starting_nside, i) == starting_nside
DepthNside(starting_nside, i) == starting_nside \div (2 ^ i)

\* "for i in range(depth)" of get_healpix_laplacians, from depth i on
RECURSIVE LaplacianLoop(_, _, _, _, _, _, _)
LaplacianLoop(i, depth, starting_nside, hemisphere, meshes, laps, vec) ==
    IF i >= depth THEN [ok |-> TRUE, error |-> "", laps |-> laps, vec |-> vec]
    ELSE LET G == SphereHealpix(DepthNside(starting_nside, i), meshes)
         IN  IF hemisphere /\ ~OnePartnerEach(G)
             THEN [ok |-> FALSE, error |-> "AssertionError", laps |-> laps, vec |-> vec]
             ELSE LaplacianLoop(i + 1, depth, starting_nside, hemisphere, meshes,
                                Append(laps, MeshLaplacian(G, hemisphere)),
                                Append(vec, MeshCoords(G, hemisphere)))

\* get_healpix_laplacians(starting_nside, depth, "normalized", 8, pooling_name,
\* hemisphere); when it raises, laps and vec are its lists at that moment
get_healpix_laplacians(starting_nside, depth, pooling_name, hemisphere, meshes) ==
    IF pooling_name \notin SpatialPoolingNames
    THEN LET built == LaplacianLoop(0, depth, starting_nside, hemisphere, meshes, <<>>, <<>>)
         IN  IF built.ok
             THEN [built EXCEPT !.laps = Reversed(built.laps), !.vec = Reversed(built.vec)]
             ELSE built
    ELSE LET G == SphereHealpix(starting_nside, meshes)
         IN  IF hemisphere /\ ~OnePartnerEach(G)
             THEN [ok |-> FALSE, error |-> "AssertionError", laps |-> <<>>, vec |-> <<>>]
             ELSE [ok |-> TRUE, error |-> "",
                   laps |-> Reversed([i \in 1..depth |-> MeshLaplacian(G, hemisphere)]),
                   vec |-> Reversed([i \in 1..depth |-> MeshCoords(G, hemisphere)])]

\* int(((patch_size - 2) / 2) * (patch_size%2) + patch_size / 2): the two
\* quotients are halves of integers, their sum is exact, int() truncates it
ShrunkPatchFloored(patch_size) ==
    ((patch_size - 2) \div 2) * (patch_size % 2) + patch_size \div 2
ShrunkPatch(patch_size) ==
    LET halves == (patch_size - 2) * (patch_size % 2) + patch_size
    IN  IF halves >= 0 THEN halves \div 2 ELSE -((-halves) \div 2)

\* (-(patch_size%2) + 2,) * 3 and ((patch_size>1) + 1,) * 3; in the slip the
\* window always moves by 2
PoolStrideTwo(patch_size) == 2
PoolStride(patch_size) == 2 - (patch_size % 2)
PoolKernel(patch_size) == IF patch_size > 1 THEN 2 ELSE 1

\* the pooling classes, kept by their constructor arguments: hr and lr are the
\* resolutions of the meshes the hemisphere indices were taken from
IdentityPooling == [class |-> "IdentityPooling"]
SpatialPoolingDefault == [class |-> "SpatialPooling"]
SpatialPooling(kernel_size_spa, stride) ==
    [class |-> "SpatialPooling", kernel_size_spa |-> kernel_size_spa, stride |-> stride]
\* a slip: the identity where the sphere is to be pooled
HealpixPoolingAsIdentity(hemisphere, hr, lr) == [class |-> "IdentityPooling"]
HealpixPooling(hemisphere, hr, lr) ==
    [class |-> "HealpixPooling", hemisphere |-> hemisphere, hr |-> hr, lr |-> lr]
MixedPooling(kernel_size_spa, stride, hemisphere, hr, lr) ==
    [class |-> "MixedPooling", kernel_size_spa |-> kernel_size_spa, stride |-> stride,
     hemisphere |-> hemisphere, hr |-> hr, lr |-> lr]

\* the hemisphere block of get_healpix_poolings at resolution n_side; in the
\* slip the coarse indices are taken from the fine mesh
HemisphereMatchSameMesh(n_side, meshes) ==
    LET hr == SphereHealpix(n_side, meshes)
    IN  IF ~OnePartnerEach(hr)
        THEN [ok |-> FALSE]
        ELSE [ok |-> TRUE, hr |-> Some(n_side), lr |-> Some(n_side)]
HemisphereMatch(n_side, meshes) ==
    LET hr == SphereHealpix(n_side, meshes)
        lr == SphereHealpix(n_side \div 2, meshes)
    IN  IF ~OnePartnerEach(hr) \/ ~OnePartnerEach(lr)
        THEN [ok |-> FALSE]
        ELSE [ok |-> TRUE, hr |-> Some(n_side), lr |-> Some(n_side \div 2)]

NoMatch == [ok |-> TRUE, hr |-> None, lr |-> None]

\* one pass of "for depth_i in range(depth-1)": the pooling appended, and the
\* patch_size and n_side after it
PoolStep(pooling_name, patch_size, n_side, hemisphere, meshes) ==
    LET shrink == [patch_size |-> ShrunkPatch(patch_size)]
        halve == [n_side |-> n_side \div 2]
        same == [patch_size |-> patch_size, n_side |-> n_side, ok |-> TRUE]
    IN  IF pooling_name \in {"mixed", "bekkers"}
        THEN LET m == IF hemisphere /\ n_side # 1 THEN HemisphereMatch(n_side, meshes)
                      ELSE NoMatch
             IN  IF ~m.ok THEN [ok |-> FALSE]
                 ELSE IF patch_size = 1 /\ n_side = 1
                 THEN [pool |-> IdentityPooling] @@ same
                 ELSE IF patch_size # 1 /\ n_side # 1
                 THEN [pool |-> MixedPooling(PoolKernel(patch_size), PoolStride(patch_size),
                                             hemisphere, m.hr, m.lr)]
                      @@ shrink @@ halve @@ same
                 ELSE IF patch_size = 1
                 THEN [pool |-> HealpixPooling(hemisphere, m.hr, m.lr)] @@ halve @@ same
                 ELSE [pool |-> SpatialPoolingDefault] @@ shrink @@ same
        ELSE IF pooling_name = "spherical"
        THEN IF n_side # 1
             THEN LET m == IF hemisphere THEN HemisphereMatch(n_side, meshes) ELSE NoMatch
                  IN  IF ~m.ok THEN [ok |-> FALSE]
                      ELSE [pool |-> HealpixPooling(hemisphere, m.hr, m.lr)] @@ halve @@ same
             ELSE [pool |-> IdentityPooling] @@ same
        ELSE IF pooling_name \in SpatialPoolingNames
        THEN IF patch_size # 1
             THEN [pool |-> SpatialPooling(PoolKernel(patch_size), PoolStride(patch_size))]
                  @@ shrink @@ same
             ELSE [pool |-> IdentityPooling] @@ same
        ELSE [pool |-> IdentityPooling] @@ same

RECURSIVE PoolLoop(_, _, _, _, _, _, _, _, _)
PoolLoop(depth_i, depth, pooling_name, patch_size, n_side, hemisphere, meshes, poolings, patch_size_list) ==
    IF depth_i >= depth - 1
    THEN [ok |-> TRUE, error |-> "", poolings |-> poolings,
          patch_size_list |-> Append(patch_size_list, patch_size)]
    ELSE LET listed == IF pooling_name = "muller" THEN patch_size_list
                       ELSE Append(patch_size_list, patch_size)
             step == PoolStep(pooling_name, patch_size, n_side, hemisphere, meshes)
         IN  IF ~step.ok
             THEN [ok |-> FALSE, error |-> "AssertionError", poolings |-> poolings,
                   patch_size_list |-> listed]
             ELSE PoolLoop(depth_i + 1, depth, pooling_name, step.patch_size, step.n_side,
                           hemisphere, meshes, Append(poolings, step.pool), listed)

PoolingNames == {"mixed", "bekkers", "spherical", "muller"} \cup SpatialPoolingNames

\* get_healpix_poolings(depth, pooling_mode, patch_size, n_side, pooling_name,
\* hemisphere); when it raises, poolings and patch_size_list are its lists at
\* that moment
get_healpix_poolings(depth, patch_size, n_side, pooling_name, hemisphere, meshes) ==
    LET looped ==
            IF pooling_name \in PoolingNames
            THEN PoolLoop(0, depth, pooling_name, patch_size, n_side, hemisphere, meshes, <<>>,
                          IF pooling_name = "muller" THEN <<patch_size>> ELSE <<>>)
            ELSE [ok |-> TRUE, error |-> "", poolings |-> <<>>,
                  patch_size_list |-> <<patch_size>>]
    IN  IF looped.ok
        THEN [looped EXCEPT !.poolings = Reversed(looped.poolings),
                            !.patch_size_list = Reversed(looped.patch_size_list)]
        ELSE looped

\* math.log(n_side, 2).is_integer()
IsPowerOfTwo(n_side) == \E e \in 0..n_side : 2 ^ e = n_side

\* n_side / (2**(depth-1)) >= 1, a true division
DepthFits(n_side, depth) == IF depth >= 1 THEN n_side >= 2 ^ (depth - 1) ELSE n_side >= 1

\* HealpixSampling(n_side, depth, patch_size, sh_degree, pooling_mode,
\* pooling_name, hemisphere, legacy); stage names the statement that raised
HealpixSampling_init(n_side, depth, patch_size, sh_degree, pooling_name, hemisphere, legacy, meshes, inv1, inv2) ==
    LET args == [n_side |-> n_side, depth |-> depth, patch_size |-> patch_size,
                 sh_degree |-> sh_degree, pooling_name |-> pooling_name,
                 hemisphere |-> hemisphere, legacy |-> legacy, meshes |-> meshes]
        fail(stage, error) == [pc |-> "raised", stage |-> stage, error |-> error] @@ args
        G == SphereHealpix(n_side, meshes)
        N == IF hemisphere THEN G.north ELSE G.V
        sampling == Sampling_init(N, sh_degree, None, FALSE, inv1, inv2)
        built == get_healpix_laplacians(n_side, depth, pooling_name, hemisphere, meshes)
        pooled == get_healpix_poolings(depth, patch_size, n_side, pooling_name, hemisphere,
                                       meshes)
    IN  IF ~IsPowerOfTwo(n_side) THEN fail("n_side", "AssertionError")
        ELSE IF ~DepthFits(n_side, depth) THEN fail("depth", "AssertionError")
        ELSE IF legacy THEN fail("legacy", "NotImplementedError")
        ELSE IF hemisphere /\ G.north # G.V \div 2 THEN fail("coords", "AssertionError")
        ELSE IF sampling.pc = "raised" THEN fail("sampling", sampling.error)
        ELSE IF sh_degree = None THEN fail("S2SH", "TypeError")
        ELSE IF sampling.S2SH.shape[2] # (sh_degree[1] + 1) * (sh_degree[1] \div 2 + 1)
        THEN fail("S2SH", "AssertionError")
        ELSE IF ~built.ok
        THEN [laps |-> built.laps, vec |-> built.vec] @@ fail("laplacians", built.error)
        ELSE IF ~pooled.ok
        THEN [laps |-> built.laps, vec |-> built.vec, pooling |-> pooled.poolings,
              patch_size_list |-> pooled.patch_size_list] @@ fail("poolings", pooled.error)
        ELSE [pc |-> "built", stage |-> "", error |-> "", sampling |-> sampling,
              laps |-> built.laps, vec |-> built.vec, pooling |-> pooled.poolings,
              patch_size_list |-> pooled.patch_size_list] @@ args

-----------------------------------------------------------------------------
(* Specification SpecHealpix: one construction of a HealpixSampling, then   *)
(* one call of get_healpix_poolings on the object                           *)

HealpixNames == {"mixed", "bekkers", "spherical", "spatial", "muller", ""}

HealpixDegrees == {None, Some(0), Some(2), Some(3), Some(4)}

HealpixInit ==
    /\ smp = [pc |-> "args"]
    /\ cheb = Idle /\ lapArg = Idle /\ layer = Idle /\ fwdIn = Idle /\ fwdOut = Idle
    /\ iso = Idle /\ shp = Idle

HealpixOthersUnchanged == UNCHANGED <<cheb, lapArg, layer, fwdIn, fwdOut, iso, shp>>

NewHealpixSampling ==
    /\ smp.pc = "args"
    /\ \E n_side \in Resolutions, depth \in 0..MaxDepth, patch_size \in 1..MaxPatch,
          sh_degree \in HealpixDegrees, pooling_name \in HealpixNames,
          hemisphere \in BOOLEAN, legacy \in BOOLEAN, meshes \in MeshFamilies,
          inv1 \in InvOutcomes, inv2 \in InvOutcomes :
          smp' = HealpixSampling_init(n_side, depth, patch_size, sh_degree, pooling_name,
                                      hemisphere, legacy, meshes, inv1, inv2)
    /\ HealpixOthersUnchanged

\* BvecSampling: its poolings act on the spatial axes only

\* get_bvec_poolings: "for i in range(depth-1)"
RECURSIVE BvecPoolLoop(_, _, _, _)
BvecPoolLoop(i, depth, image_size, poolings) ==
    IF i >= depth - 1 THEN poolings
    ELSE IF image_size # 1
    THEN BvecPoolLoop(i + 1, depth, ShrunkPatch(image_size),
                      Append(poolings, SpatialPooling(PoolKernel(image_size),
                                                      PoolStride(image_size))))
    ELSE BvecPoolLoop(i + 1, depth, image_size, Append(poolings, IdentityPooling))

get_bvec_poolings(depth, image_size) == Reversed(BvecPoolLoop(0, depth, image_size, <<>>))

\* get_bvec_laplacians: the Laplacian of the one graph, depth times
get_bvec_laplacians(N, depth) == [i \in 1..depth |-> [shape |-> <<N, N>>]]

\* BvecSampling(bvec, depth, image_size, sh_degree, pooling_mode) for N directions
BvecSampling_init(N, depth, image_size, sh_degree, inv1, inv2) ==
    LET args == [N |-> N, depth |-> depth, patch_size |-> image_size,
                 sh_degree |-> sh_degree]
        fail(stage, error) == [pc |-> "bvecRaised", stage |-> stage, error |-> error] @@ args
        sampling == Sampling_init(N, sh_degree, None, FALSE, inv1, inv2)
    IN  IF sampling.pc = "raised" THEN fail("sampling", sampling.error)
        ELSE IF sh_degree = None THEN fail("S2SH", "TypeError")
        ELSE IF sampling.S2SH.shape[2] # (sh_degree[1] + 1) * (sh_degree[1] \div 2 + 1)
        THEN fail("S2SH", "AssertionError")
        ELSE [pc |-> "bvecBuilt", stage |-> "", error |-> "", sampling |-> sampling,
              laps |-> get_bvec_laplacians(N, depth),
              pooling |-> get_bvec_poolings(depth, image_size)] @@ args

\* the numbers of directions of the b-vector tables
BvecCounts == {MaxVectors - 1, MaxVectors}

NewBvecSampling ==
    /\ smp.pc = "args"
    /\ \E N \in BvecCounts, depth \in 0..MaxDepth, image_size \in 1..MaxPatch,
          sh_degree \in HealpixDegrees, inv1 \in InvOutcomes, inv2 \in InvOutcomes :
          smp' = BvecSampling_init(N, depth, image_size, sh_degree, inv1, inv2)
    /\ HealpixOthersUnchanged

\* self.get_healpix_poolings(depth, pooling_mode, patch_size, n_side,
\* pooling_name, hemisphere) called on the object
CallPoolings ==
    /\ smp.pc = "built"
    /\ \E n_side \in Resolutions, depth \in 0..MaxDepth, patch_size \in 1..MaxPatch :
          smp' = [pc |-> "called", n_side |-> n_side, depth |-> depth,
                  patch_size |-> patch_size, pooling_name |-> smp.pooling_name,
                  hemisphere |-> smp.hemisphere, meshes |-> smp.meshes,
                  result |-> get_healpix_poolings(depth, patch_size, n_side,
                                                  smp.pooling_name, smp.hemisphere,
                                                  smp.meshes)]
    /\ HealpixOthersUnchanged

HealpixNext == NewHealpixSampling \/ CallPoolings \/ NewBvecSampling

SpecHealpix == HealpixInit /\ [][HealpixNext]_vars

\* the resolution of the mesh get_healpix_laplacians builds for loop index i
LaplacianResolution(i) ==
    IF smp.pooling_name \in {"spatial", "spatial_vec", "spatial_sh"} THEN smp.n_side
    ELSE smp.n_side \div (2 ^ i)

\* the resolution get_healpix_poolings has reached at transition d
PoolingResolution(d) ==
    IF smp.n_side \div (2 ^ d) >= 1 THEN smp.n_side \div (2 ^ d) ELSE 1

MeshBroken(r) == smp.meshes[r].partnerSums # {1}

ReachedLaplacians == smp.pc = "built" \/ (smp.pc = "raised" /\ smp.stage \in {"laplacians", "poolings"})

\* C13: with hemisphere on, when the mesh of some depth has a vertex with no
\* or with several antipodal partners, building the Laplacians raises
\* AssertionError with no Laplacian of that mesh appended and no pooling made,
\* and get_healpix_poolings raises AssertionError with no pooling appended
\* that refers to that mesh
C13_UnpairedMeshAborts ==
    /\ (ReachedLaplacians /\ smp.hemisphere) =>
          \A i \in 0..(smp.depth - 1) :
              MeshBroken(LaplacianResolution(i)) =>
                  /\ smp.pc = "raised" /\ smp.error = "AssertionError"
                  /\ smp.stage = "laplacians"
                  /\ \A j \in DOMAIN smp.laps : smp.laps[j].n_side # LaplacianResolution(i)
                  /\ \A j \in DOMAIN smp.vec : smp.vec[j].n_side # LaplacianResolution(i)
    /\ (smp.pc = "called" /\ smp.hemisphere /\ smp.pooling_name \in {"mixed", "bekkers", "spherical"}) =>
          \A d \in 0..(smp.depth - 2) :
              LET hr == PoolingResolution(d)
              IN  (hr # 1 /\ (MeshBroken(hr) \/ MeshBroken(hr \div 2))) =>
                      /\ ~smp.result.ok /\ smp.result.error = "AssertionError"
                      /\ Len(smp.result.poolings) <= d

\* a construction stopped by the assertion after the Laplacian of a finer mesh
\* was appended
C13_Witness ==
    /\ smp.pc = "raised" /\ smp.stage = "laplacians" /\ smp.hemisphere
    /\ Len(smp.laps) >= 1
    /\ \E i \in 1..(smp.depth - 1) : MeshBroken(LaplacianResolution(i))

\* entry j (from 0) of the returned lists is the mesh of resolution
\* n_side / 2^(depth-1-j)
CoarsestFirst ==
    /\ Len(smp.laps) = smp.depth /\ Len(smp.vec) = smp.depth
    /\ \A j \in 0..(smp.depth - 1) :
          /\ smp.laps[j + 1].n_side * 2 ^ (smp.depth - 1 - j) = smp.n_side
          /\ smp.vec[j + 1].n_side * 2 ^ (smp.depth - 1 - j) = smp.n_side

\* C14: in every HealpixSampling that was built, entry j of the Laplacian list
\* and of the coordinate list is the mesh of resolution n_side / 2^(depth-1-j)
C14_CoarsestFirst == smp.pc = "built" => CoarsestFirst

\* C14 as the code has it: the lists run from the coarsest mesh to the mesh of
\* n_side when pooling_name is not 'spatial', 'spatial_vec' or 'spatial_sh';
\* with these names every entry is the mesh of n_side
C14_CoarsestFirstAmended ==
    smp.pc = "built" =>
        IF smp.pooling_name \in {"spatial", "spatial_vec", "spatial_sh"}
        THEN /\ Len(smp.laps) = smp.depth /\ Len(smp.vec) = smp.depth
             /\ \A j \in 1..smp.depth :
                   smp.laps[j].n_side = smp.n_side /\ smp.vec[j].n_side = smp.n_side
        ELSE CoarsestFirst

\* a pyramid of three meshes was built
C14_Witness ==
    /\ smp.pc = "built" /\ smp.depth = 3
    /\ smp.pooling_name \notin {"spatial", "spatial_vec", "spatial_sh"}
    /\ smp.laps[1].n_side < smp.laps[3].n_side

\* C15: in every HealpixSampling built with pooling_name 'mixed', 'bekkers' or
\* 'spherical', with or without hemisphere, the Laplacian of each depth has
\* four times the vertices of the Laplacian of the next coarser depth
C15_VerticesQuadruple ==
    (smp.pc = "built" /\ smp.pooling_name \in {"mixed", "bekkers", "spherical"}) =>
        /\ Len(smp.laps) = smp.depth
        /\ \A j \in 1..(smp.depth - 1) :
              /\ smp.laps[j + 1].shape[1] = 4 * smp.laps[j].shape[1]
              /\ smp.vec[j + 1].shape[1] = 4 * smp.vec[j].shape[1]
              /\ smp.laps[j].shape[2] = smp.laps[j].shape[1]

\* three hemisphere meshes under spherical pooling
C15_Witness ==
    /\ smp.pc = "built" /\ smp.pooling_name = "mixed" /\ smp.hemisphere
    /\ smp.depth = 3 /\ smp.laps[3].shape[1] = 4 * smp.laps[2].shape[1]
    /\ smp.laps[1].shape[1] * 2 = Npix(1)

\* the pooling names whose transitions shrink a patch larger than 1
ShrinkingNames == {"mixed", "bekkers", "spatial", "spatial_vec", "spatial_sh"}

\* patch_size_list runs from the last depth to the first: entry j + 1 is the
\* size before a transition, entry j the size after it
PatchBefore(j) == smp.patch_size_list[j + 1]
PatchAfter(j) == smp.patch_size_list[j]

\* C20: at each transition that shrinks the patch, the next size is
\* floor((size-2)/2)*(size mod 2) + floor(size/2) for every size >= 2, and a
\* patch of size 1 stays 1
C20_PatchRecurrence ==
    smp.pc = "built" =>
        \A j \in 1..(Len(smp.patch_size_list) - 1) :
            /\ (PatchBefore(j) >= 2 /\ smp.pooling_name \in ShrinkingNames) =>
                  PatchAfter(j) = ((PatchBefore(j) - 2) \div 2) * (PatchBefore(j) % 2)
                                  + PatchBefore(j) \div 2
            /\ PatchBefore(j) = 1 => PatchAfter(j) = 1

\* C20 as the code has it: the sum (size-2)/2*(size mod 2) + size/2 is taken
\* before it is truncated, so an even size is halved and an odd size >= 3
\* loses 1; a patch of size 1 stays 1
C20_PatchRecurrenceAmended ==
    smp.pc = "built" =>
        \A j \in 1..(Len(smp.patch_size_list) - 1) :
            /\ (PatchBefore(j) >= 2 /\ smp.pooling_name \in ShrinkingNames) =>
                  PatchAfter(j) = IF PatchBefore(j) % 2 = 0 THEN PatchBefore(j) \div 2
                                  ELSE PatchBefore(j) - 1
            /\ PatchBefore(j) = 1 => PatchAfter(j) = 1

\* a patch of odd size and then of even size was shrunk, down to size 1
C20_Witness ==
    /\ smp.pc = "built" /\ smp.pooling_name \in ShrinkingNames
    /\ smp.patch_size_list = <<1, 2, 3>>

-----------------------------------------------------------------------------
(* graphconv.py: where the forward passes write. A tensor is kept by the    *)
(* name of the storage it lives in; a forward is the chain of torch calls   *)
(* that leads from its input to the tensor it returns                       *)

\* largest number of forward passes of one layer
MaxPasses == 3

\* calls whose result lives in the storage of their argument, and calls that
\* copy only when the strides of their argument require it
SharingOps == {"permute", "view", "unsqueeze", "expand", "index"}
CopyIfNeededOps == {"reshape", "contiguous", "flatten"}

\* where the result of a torch call lives: every other call (mm, einsum,
\* conv3d, cat, sum, mul, add) allocates
StoringAlwaysShared(op) == "shares"
Storing(op) ==
    IF op \in SharingOps THEN "shares"
    ELSE IF op \in CopyIfNeededOps THEN "either" ELSE "new"

\* the storage of the tensor at the end of a chain of calls that starts from a
\* tensor in storage at; copies tells whether the "either" calls copy
RECURSIVE StorageAfter(_, _, _, _, _)
StorageAfter(chain, k, at, fresh, copies) ==
    IF k > Len(chain) THEN at
    ELSE LET kind == Storing(chain[k])
         IN  StorageAfter(chain, k + 1,
                          IF kind = "new" \/ (kind = "either" /\ copies) THEN fresh ELSE at,
                          fresh, copies)

\* project_cheb_basis and project_cheb_basis_dense
ProjectChain(K) == IF K > 1 THEN <<"unsqueeze", "mm", "unsqueeze", "cat">> ELSE <<"unsqueeze">>

\* cheb_conv and cheb_conv_dense
ChebChain(precompute, einsum, dense, K) ==
    (IF precompute
     THEN IF einsum THEN <<"einsum">>
          ELSE <<"permute", "reshape", "mm", "reshape", "permute">>
     ELSE <<"permute", "contiguous", "view">> \o ProjectChain(K)
          \o <<"view", "permute", "contiguous">>)
    \o (IF einsum THEN <<"reshape", "einsum">>
        ELSE <<IF dense THEN "reshape" ELSE "view", "mm", "reshape", "permute">>)

\* se3so3_conv and se3so3_conv_dense
Se3so3Chain(precompute, einsum, K) ==
    (IF precompute
     THEN IF einsum THEN <<"einsum", "permute", "reshape">>
          ELSE <<"permute", "contiguous", "view", "mm", "view", "permute", "contiguous",
                 "view">>
     ELSE <<"permute", "contiguous", "view">> \o ProjectChain(K)
          \o <<"view", "permute", "contiguous", "view">>)
    \o <<"conv3d", "view", "permute", "contiguous">>

\* a forward: the calls up to the tensor "outputs", whether "outputs += bias"
\* runs on it, and the calls from there to the returned tensor
ForwardChain(conv) ==
    CASE conv.cls = "ChebConv" ->
            [before |-> ChebChain(conv.precompute, conv.einsum, conv.dense, conv.K),
             inplace |-> conv.bias, after |-> <<>>]
      [] conv.cls = "SO3SE3Conv" ->
            [before |-> Se3so3Chain(conv.precompute, conv.einsum, conv.K),
             inplace |-> conv.bias, after |-> <<>>]
      [] conv.cls \in {"SpatialConv", "SpatialConvPrecomputed"} ->
            [before |-> <<"reshape", "conv3d">>, inplace |-> conv.bias,
             after |-> <<"reshape">>]
      [] conv.cls = "ChebConvPrecomputed" ->
            [before |-> <<"permute", "reshape", "mm", "reshape", "permute", "reshape", "mm",
                          "reshape", "permute">>,
             inplace |-> conv.bias, after |-> <<>>]
      [] conv.cls = "SO3SE3ConvPrecomputer" ->
            [before |-> <<"permute", "reshape", "mm", "reshape", "permute", "reshape",
                          "conv3d", "reshape", "permute", "contiguous">>,
             inplace |-> FALSE, after |-> <<>>]
      [] conv.cls \in {"FiberBundleConvFixedGraph", "FiberBundleConvFixedGraphMLP"} ->
            [before |-> <<"reshape", "conv3d", "reshape", "einsum", "contiguous">>,
             inplace |-> FALSE, after |-> IF conv.bias THEN <<"add">> ELSE <<>>]

\* Conv.forward and ConvPrecomputed.forward on an input in storage at: the
\* storages written in place and the storage of the returned tensor
Forward_storage(conv, at, fresh, copies) ==
    LET chain == ForwardChain(conv)
        outputs == StorageAfter(chain.before, 1, at, fresh, copies)
    IN  [written |-> IF chain.inplace THEN {outputs} ELSE {},
         returned |-> StorageAfter(chain.after, 1, outputs, fresh, copies)]

-----------------------------------------------------------------------------
(* Specification SpecFrame: a layer and up to MaxPasses forward passes on   *)
(* the caller's tensor or on the tensor an earlier pass returned            *)

\* the storages of a layer: buffers, mask and parameters
LayerStorages ==
    {"laplacian", "projector", "weight_tmp", "weight", "weightSph", "weightSpa", "bias"}

\* the caller's tensor and the tensor allocated by each pass
PassStorage(n) == <<"y1", "y2", "y3", "y4">>[n]
SignalStorages == {"x"} \cup {PassStorage(n) : n \in 1..MaxPasses}

FrameClasses ==
    {"ChebConv", "SO3SE3Conv", "SpatialConv", "ChebConvPrecomputed", "SO3SE3ConvPrecomputer",
     "SpatialConvPrecomputed", "FiberBundleConvFixedGraph", "FiberBundleConvFixedGraphMLP"}

FrameLayers ==
    {[pc |-> "built", cls |-> c, precompute |-> p, einsum |-> e, dense |-> d, K |-> K,
      bias |-> b, versions |-> [st \in LayerStorages |-> 0]] :
        c \in FrameClasses, p \in BOOLEAN, e \in BOOLEAN, d \in BOOLEAN, K \in 1..2,
        b \in BOOLEAN}

FrameInit ==
    /\ layer = [pc |-> "none"]
    /\ fwdIn = [pc |-> "none", at |-> "x", versions |-> [st \in SignalStorages |-> 0]]
    /\ fwdOut = [passes |-> 0, returned |-> "x"]
    /\ cheb = Idle /\ lapArg = Idle /\ iso = Idle /\ smp = Idle /\ shp = Idle

FrameOthersUnchanged == UNCHANGED <<cheb, lapArg, iso, smp, shp>>

\* Conv(...) or ConvPrecomputed(...)
NewLayer ==
    /\ layer.pc = "none"
    /\ layer' \in {l \in FrameLayers :
                      l.cls \notin {"ChebConv", "SO3SE3Conv"} =>
                          (~l.precompute /\ ~l.einsum /\ ~l.dense /\ l.K = 1)}
    /\ UNCHANGED <<fwdIn, fwdOut>>
    /\ FrameOthersUnchanged

Bumped(versions, written) ==
    [st \in DOMAIN versions |-> IF st \in written THEN versions[st] + 1 ELSE versions[st]]

\* layer(x) on the caller's tensor or on the tensor the last pass returned
ForwardPass ==
    /\ layer.pc = "built"
    /\ fwdOut.passes < MaxPasses
    /\ \E at \in {"x", fwdOut.returned}, copies \in BOOLEAN :
          LET pass == Forward_storage(layer, at, PassStorage(fwdOut.passes + 1), copies)
          IN  /\ layer' = [layer EXCEPT !.versions = Bumped(@, pass.written)]
              /\ fwdIn' = [pc |-> "given", at |-> at,
                           versions |-> Bumped(fwdIn.versions, pass.written)]
              /\ fwdOut' = [passes |-> fwdOut.passes + 1, returned |-> pass.returned]
    /\ FrameOthersUnchanged

FrameNext == NewLayer \/ ForwardPass

SpecFrame == FrameInit /\ [][FrameNext]_vars

\* C17: a forward pass, whatever passes came before it, leaves the buffers,
\* the mask, the weights and the bias of the layer and the tensor it was
\* given as they were
C17_ForwardFrame ==
    [][fwdOut'.passes = fwdOut.passes + 1 =>
          /\ layer'.versions = layer.versions
          /\ fwdIn'.versions[fwdIn'.at] = fwdIn.versions[fwdIn'.at]]_vars

\* the third pass of a layer with a bias took the tensor of the second pass
\* and added the bias in place to the tensor it returned
C17_Witness ==
    /\ fwdOut.passes = 3 /\ layer.bias /\ layer.cls = "ChebConv"
    /\ fwdIn.at = PassStorage(2)
    /\ fwdOut.returned = PassStorage(3)
    /\ fwdIn.versions[PassStorage(3)] = 1

-----------------------------------------------------------------------------
(* graphconv.py: the forward passes of the precomputed layers, and the      *)
(* runtime and precomputed mixed layers side by side                        *)

\* torch.nn.functional.conv3d(inputs, weight, bias=bias, padding='same');
\* outputs are counted in hundredths
Conv3dSameBias(inputs, weight, bias) == AddBias(Conv3dSame(inputs, weight), bias)

\* ChebConvPrecomputed.forward: cheb_conv, then "outputs += self.bias" with
\* the bias of shape 1 x Fout x 1 x 1 x 1 x 1
ChebConvPrecomputed_forward(self, inputs) ==
    IF ~inputs.ok \/ Len(inputs.shape) # 6 THEN ErrT
    ELSE
    LET B == inputs.shape[1]
        Fin == inputs.shape[2]
        V == inputs.shape[3]
        X == inputs.shape[4]
        Y == inputs.shape[5]
        Z == inputs.shape[6]
        K == self.kernel_sizeSph
        x0 == Reshape(Permute(inputs, <<2, 1, 0, 3, 4, 5>>), <<V, Fin * B * X * Y * Z>>)
        basis == Reshape(Mm(self.projector, x0), <<K, V, Fin, B, X, Y, Z>>)
        flat == Reshape(Permute(basis, <<3, 1, 4, 5, 6, 0, 2>>),
                        <<B * V * X * Y * Z, K * Fin>>)
        outputs == Permute(Reshape(Mm(flat, self.weight),
                                   <<B, V, X, Y, Z, self.out_channels>>),
                           <<0, 5, 1, 2, 3, 4>>)
    IN  AddBias(outputs, IF self.bias.ok THEN Reshape(self.bias, <<self.bias.shape[2]>>)
                         ELSE ErrT)

\* a slip: the spatial weight multiplies the kernel at every kernel size
PrecomputedKernelAlways(self) ==
    LET K == self.kernel_sizeSph
        kS == self.kernel_sizeSpa
        wSph == Expand(self.weightSph, <<self.weightSph.shape[1], self.weightSph.shape[2],
                                         kS, kS, kS>>)
        weightSpa == IF self.isoSpa THEN IsoKernel(self.weight_tmp, self.weightSpa)
                     ELSE self.weightSpa
        wSpa == Flatten2(Expand(Unsqueeze(weightSpa, 2),
                                <<weightSpa.shape[1], weightSpa.shape[2], K, kS, kS, kS>>),
                         1)
    IN  IF wSph.ok /\ wSpa.ok /\ wSph.shape # wSpa.shape THEN ErrT ELSE Mul(wSph, wSpa)
\* SO3SE3ConvPrecomputer.se3so3_conv, "Expand spherical and Spatial filters":
\* the spatial weight enters the kernel only when kernel_sizeSpa > 1
PrecomputedKernel(self) ==
    IF self.kernel_sizeSpa > 1
    THEN LET K == self.kernel_sizeSph
             kS == self.kernel_sizeSpa
             wSph == Expand(self.weightSph,
                            <<self.weightSph.shape[1], self.weightSph.shape[2], kS, kS, kS>>)
             weightSpa == IF self.isoSpa THEN IsoKernel(self.weight_tmp, self.weightSpa)
                          ELSE self.weightSpa
             wSpa == Flatten2(Expand(Unsqueeze(weightSpa, 2),
                                     <<weightSpa.shape[1], weightSpa.shape[2], K,
                                       kS, kS, kS>>),
                              1)
         IN  IF wSph.ok /\ wSpa.ok /\ wSph.shape # wSpa.shape THEN ErrT
             ELSE Mul(wSph, wSpa)
    ELSE self.weightSph

\* SO3SE3ConvPrecomputer.forward
SO3SE3ConvPrecomputer_forward(self, inputs) ==
    IF ~inputs.ok \/ Len(inputs.shape) # 6 THEN ErrT
    ELSE
    LET B == inputs.shape[1]
        Fin == inputs.shape[2]
        V == inputs.shape[3]
        X == inputs.shape[4]
        Y == inputs.shape[5]
        Z == inputs.shape[6]
        K == self.kernel_sizeSph
        x0 == Reshape(Permute(inputs, <<2, 1, 0, 3, 4, 5>>), <<V, Fin * B * X * Y * Z>>)
        basis == Reshape(Mm(self.projector, x0), <<K, V, Fin, B, X, Y, Z>>)
        projected == Reshape(Permute(basis, <<3, 1, 2, 0, 4, 5, 6>>),
                             <<B * V, Fin * K, X, Y, Z>>)
        conv == Conv3dSameBias(projected, PrecomputedKernel(self), self.bias)
    IN  Contiguous(Permute(Reshape(conv, <<B, V, self.out_channels, X, Y, Z>>),
                           <<0, 2, 1, 3, 4, 5>>))

\* ConvPrecomputed.forward: self.conv(x), for the layers whose forward is followed
ConvPrecomputed_forward(self, x) ==
    IF self.conv.cls = "ChebConvPrecomputed" THEN ChebConvPrecomputed_forward(self.conv, x)
    ELSE IF self.conv.cls = "SO3SE3ConvPrecomputer"
    THEN SO3SE3ConvPrecomputer_forward(self.conv, x)
    ELSE ErrT

\* largest kernel_sizeSph and kernel_sizeSpa of the mixed layers set side by side
MaxFusedK == 3
MaxFusedSpa == 3

\* the Laplacians of the mixed layers: a non-symmetric one and two symmetric
\* ones (two vertices, and a path of three vertices)
FusedLaplacians ==
    {Tensor(<<2, 2>>, <<0, 1, 0, 0>>), Tensor(<<2, 2>>, <<1, -1, -1, 1>>),
     Tensor(<<3, 3>>, <<2, -1, 0, -1, 2, -1, 0, -1, 2>>)}

\* <<precompute, einsum, dense>> of the mixed layers: dense only changes the
\* runtime recurrence, einsum only the precomputed projection
FusedFlags ==
    {<<FALSE, FALSE, FALSE>>, <<FALSE, FALSE, TRUE>>, <<TRUE, FALSE, FALSE>>,
     <<TRUE, TRUE, FALSE>>}

\* <<kernel_sizeSpa, isoSpa>> of the mixed layers: the isotropic kernel has
\* more than one radius from size 3 on
FusedSpatial == {<<s, FALSE>> : s \in 1..MaxFusedSpa} \cup {<<MaxFusedSpa, TRUE>>}

\* the arguments of Conv.__init__ and ConvPrecomputed.__init__ for a mixed layer
FusedConfigs ==
    {[conv_name |-> "mixed", in_channels |-> MaxChannels, out_channels |-> MaxChannels,
      kernel_sizeSph |-> K, kernel_sizeSpa |-> s[1], bias |-> TRUE, isoSpa |-> s[2],
      dense |-> g[3], precompute |-> g[1], einsum |-> g[2], repeat_interleave |-> r] :
        K \in 1..MaxFusedK, s \in FusedSpatial, g \in FusedFlags, r \in BOOLEAN}

\* the inputs of a mixed layer on V vertices: a row of three voxels
FusedInputs(V, Fin) == {Iota(<<MaxBatch, Fin, V, 3, 1, 1>>)}

FusedInit ==
    /\ lapArg \in FusedLaplacians
    /\ layer = Idle /\ fwdIn = Idle /\ fwdOut = [pc |-> "none"]
    /\ cheb = Idle /\ iso = Idle /\ smp = Idle /\ shp = Idle

\* load_state_dict of the runtime layer's parameters into the precomputed one:
\* the Fout x Fin x K spherical weight fills the Fout x Fin*K x 1 x 1 x 1 one
LoadedFrom(precomputed, runtime) ==
    [precomputed EXCEPT
       !.conv.weightSph = Reshape(runtime.conv.weightSph, @.shape),
       !.conv.weightSpa = runtime.conv.weightSpa,
       !.conv.bias = runtime.conv.bias]

\* Conv(...) and ConvPrecomputed(...) built on the same Laplacian with the same
\* arguments and the same parameter values
BuildMixed ==
    /\ layer = Idle
    /\ \E cfg \in FusedConfigs, draw \in DrawPatterns :
          LET runtime == Conv_init(cfg, lapArg, draw)
          IN  layer' = [precomputed |->
                          LoadedFrom(ConvPrecomputed_init(cfg, lapArg, draw), runtime)]
                       @@ runtime
    /\ UNCHANGED <<lapArg, fwdIn, fwdOut>>
    /\ ConvOthersUnchanged

\* both layers run on the same input
ForwardBoth ==
    /\ layer.pc = "built"
    /\ fwdIn = Idle
    /\ \E x \in FusedInputs(lapArg.shape[1], layer.cfg.in_channels) :
          /\ fwdIn' = [pc |-> "given", x |-> x]
          /\ fwdOut' = [pc |-> "returned", x |-> Conv_forward(layer, x),
                        y |-> ConvPrecomputed_forward(layer.precomputed, x)]
    /\ UNCHANGED <<lapArg, layer>>
    /\ ConvOthersUnchanged

FusedNext == BuildMixed \/ ForwardBoth

SpecFused == FusedInit /\ [][FusedNext]_vars

\* the spatial weight handed to se3so3_conv by SO3SE3Conv.forward
SpatialWeight(conv) ==
    IF conv.isoSpa THEN IsoKernel(conv.weight_tmp, conv.weightSpa) ELSE conv.weightSpa

\* the runtime layer with the other setting of repeat_interleave
OtherInterleave(self) == [self EXCEPT !.conv.repeat_interleave = ~@]

\* C21: in the mixed convolution the fused kernel built with
\* repeat_interleave=True equals, entry for entry, the one built with
\* repeat_interleave=False, and both settings give the same layer output.
C21_InterleaveParity ==
    /\ layer.pc = "built" =>
          SameT(FusedKernel(layer.conv.weightSph, SpatialWeight(layer.conv), TRUE),
                FusedKernel(layer.conv.weightSph, SpatialWeight(layer.conv), FALSE))
    /\ Ran => SameT(fwdOut.x, Conv_forward(OtherInterleave(layer), fwdIn.x))

C21_Witness ==
    /\ Ran /\ fwdOut.x.ok
    /\ layer.cfg.kernel_sizeSph = MaxFusedK /\ layer.cfg.in_channels = MaxChannels
    /\ layer.cfg.kernel_sizeSpa > 1 /\ layer.cfg.repeat_interleave
    /\ FusedKernel(layer.conv.weightSph, SpatialWeight(layer.conv), FALSE).ok
    /\ \E f \in 1..Len(fwdOut.x.data) : fwdOut.x.data[f] # 0

\* the Chebyshev orders of a 6-axis input, K x V x Fin x B x X x Y x Z:
\* order k of x[b, f, :, p] by the recurrence of project_cheb_basis
ChebOrders(lap, x, K) ==
    LET V == x.shape[3]
        x0 == Reshape(Permute(x, <<2, 1, 0, 3, 4, 5>>), <<V, Numel(x.shape) \div V>>)
    IN  Reshape(project_cheb_basis(lap, x0, K),
                <<K, V, x.shape[2], x.shape[1], x.shape[4], x.shape[5], x.shape[6]>>)

\* an entry of the orders, 0 outside the patch (zero padding)
OrderAtPadded(orders, k, v, f, b, p) ==
    IF \A a \in 1..3 : p[a] >= 0 /\ p[a] < orders.shape[4 + a]
    THEN At(orders, <<k, v, f, b, p[1], p[2], p[3]>>)
    ELSE 0

\* sum over f, k and d of weightSph[o,f,k] * weightSpa[o,f,d] * basis_k(x)[b,f,v,p+d],
\* the offsets d counted from the corner of a kernel centred as padding='same' does
FusedSum(orders, weightSph, weightSpa, b, o, v, p) ==
    LET ks == <<weightSph.shape[2], weightSph.shape[3],
                weightSpa.shape[3], weightSpa.shape[4], weightSpa.shape[5]>>
    IN  SumFn([m \in 0..(Numel(ks) - 1) |->
                 LET i == Unravel(ks, m)
                     q == [a \in 1..3 |-> p[a] + i[2 + a] - ((ks[2 + a] - 1) \div 2)]
                 IN  At(weightSph, <<o, i[1], i[2]>>)
                   * At(weightSpa, <<o, i[1], i[3], i[4], i[5]>>)
                   * OrderAtPadded(orders, i[2], v, i[1], b, q)],
              0, Numel(ks) - 1)

IsSymmetric(lap) ==
    \A i, j \in 0..(lap.shape[1] - 1) : At(lap, <<i, j>>) = At(lap, <<j, i>>)

\* sum over f and k of weight[k,f,o] * basis_k(x[b,f,:,p])[v]
ChebSum(orders, weight, b, o, v, p) ==
    LET ks == <<weight.shape[1], weight.shape[2]>>
    IN  SumFn([m \in 0..(Numel(ks) - 1) |->
                 LET i == Unravel(ks, m)
                 IN  At(weight, <<i[1], i[2], o>>)
                   * At(orders, <<i[1], v, i[2], b, p[1], p[2], p[3]>>)],
              0, Numel(ks) - 1)

\* C23: in the spherical-only convolution, for every setting of the precompute
\* and einsum flags, the output at (b,o,v,p) is the sum over f and k of
\* weight[k,f,o] * basis_k(x[b,f,:,p])[v] plus bias[o] (in hundredths): only
\* the same batch index and the same voxel of the input enter.
C23_ChebSum ==
    (Ran /\ layer.conv.cls = "ChebConv" /\ fwdIn.x.shape[2] = layer.cfg.in_channels) =>
      LET conv == layer.conv
          orders == ChebOrders(lapArg, fwdIn.x, conv.kernel_sizeSph)
          out == fwdOut.x
      IN  /\ out.ok
          /\ \A g \in 1..Numel(out.shape) :
                LET i == Unravel(out.shape, g - 1)
                IN  out.data[g] =
                      Hundredths * ChebSum(orders, conv.weight, i[1], i[2], i[3],
                                           <<i[4], i[5], i[6]>>)
                      + (IF conv.bias.ok THEN conv.bias.data[i[2] + 1] ELSE 0)

\* the runtime layer with a spatial weight of ones
WithUnitSpatial(self) == [self EXCEPT !.conv.weightSpa = Full(@.shape, 1)]

\* C25: on every symmetric Laplacian and for every spatial kernel size >= 1,
\* kernel size 1 included, the precomputed mixed layer (SO3SE3ConvPrecomputer)
\* returns what the runtime mixed layer (SO3SE3Conv) returns for the same input,
\* spherical weight, spatial weight and bias.
C25_PrecomputedParity ==
    (Ran /\ IsSymmetric(lapArg)) => SameT(fwdOut.y, fwdOut.x)

\* C25, amended: the two layers agree for every spatial kernel size > 1; at
\* kernel size 1 the precomputed layer leaves the spatial weight out of the
\* kernel and returns what the runtime layer returns for a spatial weight of ones.
C25_PrecomputedParityAmended ==
    (Ran /\ IsSymmetric(lapArg)) =>
      IF layer.cfg.kernel_sizeSpa > 1
      THEN SameT(fwdOut.y, fwdOut.x)
      ELSE SameT(fwdOut.y, Conv_forward(WithUnitSpatial(layer), fwdIn.x))

C25_Witness ==
    /\ Ran /\ IsSymmetric(lapArg) /\ lapArg.shape[1] > 2
    /\ layer.cfg.kernel_sizeSpa = 1 /\ layer.cfg.kernel_sizeSph = MaxFusedK
    /\ fwdOut.y.ok /\ fwdOut.x.ok /\ fwdOut.y.data # fwdOut.x.data

\* the pooling list and the patch-size list of the object that was built, or of
\* the call that returned
Pools == IF smp.pc = "called" THEN smp.result.poolings ELSE smp.pooling
Sizes == IF smp.pc = "called" THEN smp.result.patch_size_list ELSE smp.patch_size_list
Listed == smp.pc = "built" \/ (smp.pc = "called" /\ smp.result.ok)

\* what an operator pools
PoolsSphere(pool) == pool.class \in {"HealpixPooling", "MixedPooling"}
PoolsSpace(pool) == pool.class \in {"SpatialPooling", "MixedPooling"}

\* the lists run from the last transition to the first: the transitions before
\* pooling j are the poolings after it in the list, and each one that pools the
\* sphere has halved the resolution
RECURSIVE NsideBefore(_)
NsideBefore(j) ==
    IF j >= Len(Pools) THEN smp.n_side
    ELSE IF PoolsSphere(Pools[j + 1]) THEN NsideBefore(j + 1) \div 2
    ELSE NsideBefore(j + 1)

SizeBefore(j) == Sizes[j + 1]
SizeAfter(j) == Sizes[j]

\* C24: with pooling_name 'mixed', at every depth transition the operator pools
\* the sphere exactly when the current n_side is not 1 and the spatial axes
\* exactly when the current patch size is not 1: patch 1 with n_side > 1 gives
\* the spherical-only pooling and leaves the patch at 1, patch > 1 with
\* n_side > 1 gives the mixed pooling and shrinks the patch, patch 1 with
\* n_side 1 gives the identity.
C24_MixedSelection ==
    (Listed /\ smp.pooling_name = "mixed") =>
        \A j \in 1..Len(Pools) :
            LET pool == Pools[j]
                n == NsideBefore(j)
                p == SizeBefore(j)
            IN  /\ PoolsSphere(pool) <=> n # 1
                /\ PoolsSpace(pool) <=> p # 1
                /\ (p = 1 /\ n > 1) => (pool.class = "HealpixPooling" /\ SizeAfter(j) = 1)
                /\ (p > 1 /\ n > 1) => (pool.class = "MixedPooling" /\ SizeAfter(j) < p)
                /\ (p = 1 /\ n = 1) => (pool = IdentityPooling /\ SizeAfter(j) = 1)

\* a call that went through the mixed and then the spherical-only transition
C24_Witness ==
    /\ smp.pc = "called" /\ smp.result.ok /\ smp.pooling_name = "mixed"
    /\ Len(Pools) = 2
    /\ Pools[2].class = "MixedPooling" /\ Pools[1].class = "HealpixPooling"
    /\ SizeBefore(2) > 1 /\ SizeBefore(1) = 1 /\ NsideBefore(1) > 1

\* the spatial size a pooling returns for an input of a given size: a window
\* of kernel_size_spa moved by stride, floor((size - kernel) / stride) + 1
RealAfter(pool, size) ==
    IF "stride" \in DOMAIN pool
    THEN (size - pool.kernel_size_spa) \div pool.stride + 1
    ELSE size

\* the spatial size of the tensors that reach pooling j
RECURSIVE RealBefore(_)
RealBefore(j) ==
    IF j >= Len(Pools) THEN smp.patch_size
    ELSE RealAfter(Pools[j + 1], RealBefore(j + 1))

\* C26: in every pooling mode that shrinks the spatial patch, the operator of
\* a shrinking transition has a window of 2 and the stride 2 - (size mod 2),
\* and the patch size recorded for the next depth is the output length
\* floor((size - 2) / stride) + 1 of that window; the recorded sizes are the
\* real spatial sizes of the tensors and never drop below 1.
C26_ScheduleMatchesWindows ==
    (smp.pc \in {"built", "bvecBuilt"}) =>
        \A j \in 1..Len(Pools) :
            LET pool == Pools[j]
                size == RealBefore(j)
            IN  /\ "stride" \in DOMAIN pool =>
                      /\ pool.kernel_size_spa = 2
                      /\ pool.stride = 2 - (size % 2)
                /\ RealAfter(pool, size) >= 1
                /\ (smp.pc = "built" /\ smp.pooling_name \in ShrinkingNames) =>
                      /\ SizeBefore(j) = size
                      /\ SizeAfter(j) = RealAfter(pool, size)
                      /\ PoolsSpace(pool) =>
                            SizeAfter(j) = (size - 2) \div (2 - (size % 2)) + 1

\* a hierarchy whose patch went 5 -> 4 -> 2, by a window moved by 1 and then by 2
C26_Witness ==
    /\ smp.pc = "built" /\ smp.pooling_name = "mixed" /\ Len(Pools) = 2
    /\ PoolsSpace(Pools[2]) /\ Pools[2].stride = 1 /\ SizeBefore(2) = MaxPatch
    /\ PoolsSpace(Pools[1]) /\ Pools[1].stride = 2 /\ SizeAfter(1) = 2

\* C27: for every pooling_name get_healpix_poolings recognises and every
\* depth >= 1 it returns depth-1 pooling operators and a patch-size list of
\* depth entries, as many as the Laplacian list has.
C27_ListLengths ==
    (Listed /\ smp.pooling_name \in PoolingNames /\ smp.depth >= 1) =>
        /\ Len(Pools) = smp.depth - 1
        /\ Len(Sizes) = smp.depth
        /\ smp.pc = "built" => Len(smp.laps) = Len(Sizes)

\* C28: in every hierarchy built with pooling_name 'mixed', 'bekkers' or
\* 'spherical', the resolution at pooling step i is n_side / 2^i >= 2, every
\* step pools the sphere, and pooling j of the returned list links the
\* resolution of Laplacian j+1 (finer) to that of Laplacian j (coarser); no
\* identity and no spatial-only pooling is made.
C28_EveryStepPoolsSphere ==
    (smp.pc = "built" /\ smp.pooling_name \in {"mixed", "bekkers", "spherical"}) =>
        /\ smp.depth >= 1 => Len(Pools) = smp.depth - 1
        /\ \A j \in 1..Len(Pools) :
              LET pool == Pools[j]
                  i == smp.depth - 1 - j
                  n == NsideBefore(j)
              IN  /\ n * 2 ^ i = smp.n_side /\ n >= 2
                  /\ PoolsSphere(pool)
                  /\ pool.class \notin {"IdentityPooling", "SpatialPooling"}
                  /\ smp.laps[j + 1].n_side = n /\ smp.laps[j].n_side * 2 = n
                  /\ smp.hemisphere =>
                        /\ pool.hr = Some(smp.laps[j + 1].n_side)
                        /\ pool.lr = Some(smp.laps[j].n_side)

\* a hemisphere hierarchy of three meshes whose two poolings halve 4 and 2
C28_Witness ==
    /\ smp.pc = "built" /\ smp.pooling_name = "spherical" /\ smp.hemisphere
    /\ smp.depth = MaxDepth /\ smp.n_side = MaxNside
    /\ Pools[2].hr = Some(MaxNside) /\ Pools[1].lr = Some(MaxNside \div 4)

\* the number of vertices handed to Sampling by HealpixSampling.__init__
FinestCount ==
    IF smp.hemisphere THEN smp.meshes[smp.n_side].north ELSE Npix(smp.n_side)

\* the largest even degree whose coefficients number at most N - 1: the degree
\* at which Sampling caps S2SH for N directions
S2SHCap(N) ==
    CHOOSE L \in {2 * m : m \in 0..N} :
        /\ (NumCoefficients(L) <= N - 1 \/ L = 0)
        /\ NumCoefficients(L + 2) > N - 1

\* the construction went as far as "self.sampling = Sampling(coords, sh_degree)"
ReachedSampling ==
    \/ smp.pc = "built"
    \/ smp.pc = "raised" /\ smp.stage \notin {"n_side", "depth", "legacy", "coords"}

\* every hierarchy that was built has an S2SH of (sh_degree+1)(sh_degree/2+1)
\* columns, as many as SH2S has rows
BuiltDegreesAgree ==
    smp.pc = "built" =>
        /\ smp.sampling.S2SH.shape[2] = NumCoefficients(smp.sh_degree[1])
        /\ smp.sampling.S2SH.shape[2] = smp.sampling.SH2S.shape[1]

\* C29: a HealpixSampling construction asked for an sh_degree above the degree
\* Sampling can recover from the finest mesh's vertex count aborts with an
\* assertion failure, so every hierarchy that was built has an S2SH of
\* (sh_degree+1)(sh_degree/2+1) columns, as many as SH2S has rows.
C29_DegreeAboveCapAsserts ==
    /\ (ReachedSampling /\ smp.sh_degree # None /\ smp.sh_degree[1] > S2SHCap(FinestCount)) =>
          smp.pc = "raised" /\ smp.error = "AssertionError"
    /\ BuiltDegreesAgree

\* C29, amended: such a construction never succeeds; it aborts with the
\* assertion failure when Sampling returns, and with the error of Sampling
\* when Sampling raises first (ValueError for an odd degree, LinAlgError from
\* the inversion).
C29_DegreeAboveCapAborts ==
    /\ (ReachedSampling /\ smp.sh_degree # None /\ smp.sh_degree[1] > S2SHCap(FinestCount)) =>
          /\ smp.pc = "raised"
          /\ \/ smp.stage = "S2SH" /\ smp.error = "AssertionError"
             \/ smp.stage = "sampling" /\ smp.error \in {"ValueError", "LinAlgError"}
          /\ smp.sh_degree[1] % 2 = 1 <=> smp.error = "ValueError"
    /\ BuiltDegreesAgree

\* the assertion stopped a construction on the 12 vertices of n_side 1 asked
\* for degree 4
C29_Witness ==
    /\ smp.pc = "raised" /\ smp.stage = "S2SH" /\ smp.error = "AssertionError"
    /\ ~smp.hemisphere /\ smp.n_side = 1 /\ smp.sh_degree = Some(MaxDegree)
    /\ MaxDegree > S2SHCap(FinestCount)

-----------------------------------------------------------------------------
(* train.py: the checkpoints main writes. The run is kept in shp: files is   *)
(* the set of n with history/epoch_n.pth on disk (the history directory of a *)
(* new experiment is empty), saved the last_epoch in config.yml on disk      *)

\* program constant: "if (batch + 1) % 500 == 0"
SaveEvery == 500

\* largest n_epoch of a run
MaxEpochs == 3

\* the values of n_batch = min(max_n_batch, len(dataloader_train))
BatchCounts == {0, 1, SaveEvery, SaveEvery + 1}

TrainInit ==
    /\ shp \in {[pc |-> "model", n_epoch |-> n, n_batch |-> b, only_save_last |-> o,
                 has_validation |-> v, epoch |-> 0, batch |-> 0, files |-> {},
                 saved |-> None] :
                   n \in 0..MaxEpochs, b \in BatchCounts, o \in BOOLEAN, v \in BOOLEAN}
    /\ cheb = Idle /\ lapArg = Idle /\ layer = Idle /\ fwdIn = Idle /\ fwdOut = Idle
    /\ iso = Idle /\ smp = Idle

TrainOthersUnchanged == UNCHANGED <<cheb, lapArg, layer, fwdIn, fwdOut, iso, smp>>

\* torch.save(model.state_dict(), .../history/epoch_0.pth), before the loop
SaveInitial ==
    /\ shp.pc = "model"
    /\ shp' = [shp EXCEPT !.pc = "epoch", !.files = @ \cup {0}]
    /\ TrainOthersUnchanged

\* "for epoch in range(n_epoch)": the next epoch starts, or the loop is over
EpochBegin ==
    /\ shp.pc = "epoch"
    /\ shp' = IF shp.epoch < shp.n_epoch
              THEN [shp EXCEPT !.pc = "batch", !.batch = 0]
              ELSE [shp EXCEPT !.pc = "done"]
    /\ TrainOthersUnchanged

\* one pass of the batch loop up to optimizer.step(); every 500th batch goes on
\* to the save inside the loop
TrainBatch ==
    /\ shp.pc = "batch" /\ shp.batch < shp.n_batch
    /\ shp' = IF (shp.batch + 1) % SaveEvery = 0
              THEN [shp EXCEPT !.pc = "midSave"]
              ELSE [shp EXCEPT !.batch = @ + 1]
    /\ TrainOthersUnchanged

\* the forward pass, the loss or the validation raises: main stops there
RaiseInLoop ==
    /\ shp.pc \in {"batch", "validation"}
    /\ shp.pc = "batch" => shp.batch < shp.n_batch
    /\ shp' = [shp EXCEPT !.pc = "raised"]
    /\ TrainOthersUnchanged

\* torch.save(..., f'epoch_{epoch + 1}.pth') inside the batch loop
MidSave ==
    /\ shp.pc = "midSave"
    /\ shp' = [shp EXCEPT !.pc = "midConfig", !.files = @ \cup {shp.epoch + 1}]
    /\ TrainOthersUnchanged

\* config['training']['last_epoch'] = epoch + 1 and yaml.safe_dump(config, ...)
MidConfig ==
    /\ shp.pc = "midConfig"
    /\ shp' = [shp EXCEPT !.pc = "batch", !.batch = @ + 1, !.saved = Some(shp.epoch + 1)]
    /\ TrainOthersUnchanged

\* the batch loop is over: torch.save(..., f'epoch_{epoch + 1}.pth')
EndSave ==
    /\ shp.pc = "batch" /\ shp.batch = shp.n_batch
    /\ shp' = [shp EXCEPT !.pc = "endConfig", !.files = @ \cup {shp.epoch + 1}]
    /\ TrainOthersUnchanged

\* config['training']['last_epoch'] = epoch + 1 and yaml.safe_dump(config, ...)
EndConfig ==
    /\ shp.pc = "endConfig"
    /\ shp' = [shp EXCEPT !.pc = "endRemove", !.saved = Some(shp.epoch + 1)]
    /\ TrainOthersUnchanged

\* the file os.remove deletes, f'epoch_{epoch}.pth'; in the slip the file of
\* the epoch that was just saved
RemovedNext(epoch) == epoch + 1
Removed(epoch) == epoch

\* "if config['training']['only_save_last']: os.remove(...)"; os.remove raises
\* FileNotFoundError when the file is not there
EndRemove ==
    /\ shp.pc = "endRemove"
    /\ shp' = IF ~shp.only_save_last THEN [shp EXCEPT !.pc = "validation"]
              ELSE IF Removed(shp.epoch) \in shp.files
              THEN [shp EXCEPT !.pc = "validation", !.files = @ \ {Removed(shp.epoch)}]
              ELSE [shp EXCEPT !.pc = "raised"]
    /\ TrainOthersUnchanged

\* "if has_validation: ..." writes no file; then the next epoch
Validate ==
    /\ shp.pc = "validation"
    /\ shp' = [shp EXCEPT !.pc = "epoch", !.epoch = @ + 1]
    /\ TrainOthersUnchanged

TrainNext ==
    \/ SaveInitial \/ EpochBegin \/ TrainBatch \/ RaiseInLoop \/ MidSave \/ MidConfig
    \/ EndSave \/ EndConfig \/ EndRemove \/ Validate

SpecTrain == TrainInit /\ [][TrainNext]_vars

\* C30: epoch_0.pth is written before the first epoch; when epoch e finishes
\* the checkpoint files are exactly {epoch_(e+1).pth} if only_save_last is set
\* and epoch_0.pth to epoch_(e+1).pth otherwise; at every moment after the
\* initial save some checkpoint file exists, and the last_epoch written to the
\* config names a checkpoint file that exists.
C30_Checkpoints ==
    /\ (shp.pc \in {"epoch", "batch"} /\ shp.epoch = 0 /\ shp.batch = 0) => shp.files = {0}
    /\ shp.pc = "validation" =>
          shp.files = IF shp.only_save_last THEN {shp.epoch + 1} ELSE 0..(shp.epoch + 1)
    /\ shp.pc # "model" =>
          /\ shp.files # {}
          /\ shp.saved # None => shp.saved[1] \in shp.files

\* the second epoch of a run that keeps only the last checkpoint has finished,
\* after a save inside its batch loop
C30_Witness ==
    /\ shp.pc = "validation" /\ shp.only_save_last /\ shp.epoch = 1
    /\ shp.n_batch >= SaveEvery /\ shp.files = {2} /\ shp.saved = Some(2)

=============================================================================
